---- MODULE Spec2Model ----
(***************************************************************************)
(* Model of the y86 emulator (package model): the CPU of cpu.go with the   *)
(* shared encoding helpers (EncodeInst, createInstReg, intToBytes,         *)
(* bytesToInt), and the assembler's parser of parser.go.                   *)
(*                                                                         *)
(* Specifications: Spec (a CPU set up by its callers and stepped by Tick), *)
(* SpecPipe (the stage methods of Tick), SpecMem (the memory operations),  *)
(* SpecCodec (the encoding helpers) and SpecParse (the two passes of       *)
(* Parse).  The variables io and parser are used by the last three.        *)
(*                                                                         *)
(* Scaling.  The machine word of the source is int64, 8 bytes.  TLC's      *)
(* integers are 32 bits wide, so the model's word is WordBytes bytes and   *)
(* every literal 8 of the source that means "bytes of a word" is WordBytes *)
(* here: instruction sizes 9 and 10 are 1 + WordBytes and 2 + WordBytes,   *)
(* the slice bounds bytes[1:8] and bytes[2:8] are bytes[1:WordBytes] and   *)
(* bytes[2:WordBytes], the stack step is WordBytes, and the bound checks   *)
(* read addr + WordBytes > maxMem and addr > maxMem - WordBytes.  Memory   *)
(* is maxMem bytes as in the source, with maxMem scaled down.              *)
(*                                                                         *)
(* A Go runtime panic (index out of range, nil function call, integer      *)
(* division by zero) is the flag panic of the machine record: the program  *)
(* has crashed and no later operation runs.                                *)
(***************************************************************************)
EXTENDS Integers, Sequences, FiniteSets, TLC

VARIABLES mem, reg, state, panicked, last, prev, stage, setups, ticks, io, parser,
          scanner

vars ==
  <<mem, reg, state, panicked, last, prev, stage, setups, ticks, io, parser, scanner>>

(***************************************************************************)
(* Bounds of the model                                                     *)
(***************************************************************************)
\* maxMem is the size of CPU.mem (0xffff in the source), scaled down.
maxMem == 12
MaxSetup == 2
MaxTicks == 2

(***************************************************************************)
(* Program constants                                                       *)
(***************************************************************************)
WordBytes == 3
numReg == 16
stackPtrReg == 4

aok == 0
hlt == 1
adr == 2
ins == 3
dz == 4

halt == 0
nop == 1
rrmovq == 2
irmovq == 3
rmmovq == 4
mrmovq == 5
opq == 6
jxx == 7
call == 8
ret == 9
pushq == 10
popq == 11

add == 0
sub == 1
and == 2
xor == 3
mul == 4
div == 5
mod == 6

le == sub
l == and
e == xor
ne == mul
ge == div
g == mod

(***************************************************************************)
(* Machine words: two's complement integers of WordBytes bytes             *)
(***************************************************************************)
RECURSIVE Pow(_, _)
Pow(b, n) == IF n = 0 THEN 1 ELSE b * Pow(b, n - 1)

WordBits == 8 * WordBytes
WordMod == Pow(2, WordBits)
WordHalf == WordMod \div 2
MinInt == 0 - WordHalf
MaxInt == WordHalf - 1

Wrap(x) == LET u == x % WordMod IN IF u >= WordHalf THEN u - WordMod ELSE u

Abs(x) == IF x < 0 THEN 0 - x ELSE x

\* x << 8 on a word: the top byte is shifted out.
Shl8(x) == Wrap((x % (WordMod \div 256)) * 256)

RECURSIVE BitAnd(_, _, _)
BitAnd(u, v, n) ==
  IF n = 0 THEN 0
  ELSE (IF u % 2 = 1 /\ v % 2 = 1 THEN 1 ELSE 0) + 2 * BitAnd(u \div 2, v \div 2, n - 1)

RECURSIVE BitXor(_, _, _)
BitXor(u, v, n) ==
  IF n = 0 THEN 0
  ELSE (IF u % 2 # v % 2 THEN 1 ELSE 0) + 2 * BitXor(u \div 2, v \div 2, n - 1)

\* valB * valA on words, computed on half-words so that no intermediate
\* value leaves the range of the model checker's integers.
MulWrap(a, b) ==
  LET k  == Pow(2, WordBits \div 2)
      u  == a % WordMod
      v  == b % WordMod
      ul == u % k
      uh == u \div k
      vl == v % k
      vh == v \div k
  IN Wrap(ul * vl + ((uh * vl + ul * vh) % k) * k)

\* Go's / truncates toward zero; MinInt / -1 wraps to MinInt.
GoDiv(b, a) ==
  LET q == Abs(b) \div Abs(a)
  IN Wrap(IF (b < 0) = (a < 0) THEN q ELSE 0 - q)

\* Go's % takes the sign of the dividend.
GoRem(b, a) ==
  LET r == Abs(b) % Abs(a)
  IN IF b < 0 THEN 0 - r ELSE r

\* The functions of the alu map, for the fcodes that have an entry and a
\* divisor that is not zero.
aluTable(fcode, valA, valB) ==
  CASE fcode = add -> Wrap(valB + valA)
    [] fcode = sub -> Wrap(valB - valA)
    [] fcode = and -> Wrap(BitAnd(valB % WordMod, valA % WordMod, WordBits))
    [] fcode = xor -> Wrap(BitXor(valB % WordMod, valA % WordMod, WordBits))
    [] fcode = mul -> MulWrap(valA, valB)
    [] fcode = div -> GoDiv(valB, valA)
    [] fcode = mod -> GoRem(valB, valA)

(***************************************************************************)
(* Byte encodings                                                          *)
(***************************************************************************)
RECURSIVE intToBytesFrom(_, _)
intToBytesFrom(val, n) ==
  IF n = 0 THEN <<>>
  ELSE <<val % 256>> \o intToBytesFrom(val \div 256, n - 1)

intToBytes(val) == intToBytesFrom(val, WordBytes)

RECURSIVE bytesToIntFrom(_, _, _)
bytesToIntFrom(bytes, i, res) ==
  IF i = 0 THEN res
  ELSE bytesToIntFrom(bytes, i - 1, Wrap(Shl8(res) + bytes[i]))

\* A bytesToInt whose loop starts one index too low and so never reads the
\* most significant byte.
bytesToIntSkipTop(bytes) ==
  IF Len(bytes) = 0 THEN 0 ELSE bytesToIntFrom(bytes, Len(bytes) - 1, 0)

bytesToInt(bytes) == bytesToIntFrom(bytes, Len(bytes), 0)

\* Go's bytes[lo:hi] (0-based, hi exclusive) of a sequence.
Slice(bytes, lo, hi) == SubSeq(bytes, lo + 1, hi)

ZeroInstReg == [opcode |-> 0, fcode |-> 0, rA |-> 0, rB |-> 0, valC |-> 0]

\* createInstReg indexes bytes[0], bytes[1] and slices up to WordBytes: it
\* panics when the slice is shorter than what the opcode's case touches.
createInstRegPanics(bytes) ==
  \/ Len(bytes) = 0
  \/ LET opcode == bytes[1] \div 16
     IN CASE opcode \in {halt, nop, ret} -> FALSE
          [] opcode \in {jxx, call} -> Len(bytes) < WordBytes
          [] opcode \in {irmovq, rmmovq, mrmovq} -> Len(bytes) < 2 \/ Len(bytes) < WordBytes
          [] OTHER -> Len(bytes) < 2

createInstReg(bytes) ==
  LET opcode == bytes[1] \div 16
      fcode  == bytes[1] % 16
  IN CASE opcode \in {halt, nop, ret} ->
            [ZeroInstReg EXCEPT !.opcode = opcode, !.fcode = fcode]
       [] opcode \in {jxx, call} ->
            [ZeroInstReg EXCEPT !.opcode = opcode, !.fcode = fcode,
                                !.valC = bytesToInt(Slice(bytes, 1, WordBytes))]
       [] opcode \in {irmovq, rmmovq, mrmovq} ->
            [opcode |-> opcode, fcode |-> fcode,
             rA |-> bytes[2] \div 16, rB |-> bytes[2] % 16,
             valC |-> bytesToInt(Slice(bytes, 2, WordBytes))]
       [] OTHER ->
            [opcode |-> opcode, fcode |-> fcode,
             rA |-> bytes[2] \div 16, rB |-> bytes[2] % 16, valC |-> 0]

EncodeInstPanics(opcode, fcode) == fcode > 6 \/ opcode > popq

EncodeInst(opcode, fcode, rA, rB, constant) ==
  LET iByte   == ((opcode * 16) % 256) + fcode
      regByte == ((rA * 16) % 256) + rB
  IN CASE opcode \in {halt, nop, ret} -> <<iByte>>
       [] opcode \in {rrmovq, opq, pushq, popq} -> <<iByte, regByte>>
       [] opcode \in {irmovq, rmmovq, mrmovq} -> <<iByte, regByte>> \o intToBytes(constant)
       [] opcode \in {jxx, call} -> <<iByte>> \o intToBytes(constant)

(***************************************************************************)
(* The CPU.  A machine is the record [mem, reg, state, panic].             *)
(***************************************************************************)
Addr == 0 .. maxMem - 1

ZeroState ==
  [instreg |-> ZeroInstReg, valP |-> 0, valA |-> 0, valB |-> 0, valE |-> 0,
   valM |-> 0, pc |-> 0, cc |-> [of |-> FALSE, z |-> FALSE, s |-> FALSE],
   status |-> aok]

ZeroCPU ==
  [mem |-> [a \in Addr |-> 0], reg |-> [i \in 0 .. numReg - 1 |-> 0],
   state |-> ZeroState, panic |-> FALSE]

Machine == [mem |-> mem, reg |-> reg, state |-> state, panic |-> panicked]

Crash(m) == [m EXCEPT !.panic = TRUE]

RECURSIVE writeBytes(_, _, _, _)
writeBytes(memory0, addr, bytes, i) ==
  IF i > Len(bytes) THEN memory0
  ELSE writeBytes([memory0 EXCEPT ![addr + i - 1] = bytes[i]], addr, bytes, i + 1)

CopyBufFails(addr, buf) == addr < 0 \/ addr + Len(buf) >= maxMem

CopyBuf(m, addr, buf) ==
  IF CopyBufFails(addr, buf) THEN m
  ELSE [m EXCEPT !.mem = writeBytes(m.mem, addr, buf, 1)]

\* A writeLongToMem that rejects the last word of memory, the way CopyBuf
\* treats the last byte.
writeLongToMemTight(m, addr, val) ==
  IF addr < 0 \/ addr + WordBytes >= maxMem
  THEN [m EXCEPT !.state.status = adr]
  ELSE [m EXCEPT !.mem = writeBytes(m.mem, addr, intToBytes(val), 1)]

writeLongToMem(m, addr, val) ==
  IF addr < 0 \/ addr + WordBytes > maxMem
  THEN [m EXCEPT !.state.status = adr]
  ELSE [m EXCEPT !.mem = writeBytes(m.mem, addr, intToBytes(val), 1)]

writeBytesToMemFails(addr, bytes) == addr + Len(bytes) >= maxMem \/ addr < 0

writeBytesToMem(m, addr, bytes) ==
  IF writeBytesToMemFails(addr, bytes) THEN m
  ELSE [m EXCEPT !.mem = writeBytes(m.mem, addr, bytes, 1)]

readBytesFromMemFails(addr, size) == addr + size >= maxMem \/ addr < 0

readBytesFromMem(m, addr, size) == [i \in 1 .. size |-> m.mem[addr + i - 1]]

\* readMem has no lower bound check: a negative address indexes the array
\* out of range.
readMem(m, addr) ==
  IF addr > maxMem - WordBytes
  THEN [m |-> [m EXCEPT !.state.status = adr], val |-> 0]
  ELSE IF addr < 0
  THEN [m |-> Crash(m), val |-> 0]
  ELSE [m |-> m, val |-> bytesToInt(readBytesFromMem(m, addr, WordBytes))]

writeReg(m, index, val) == [m EXCEPT !.reg[index] = val]

readReg(m, index) == m.reg[index]

ccCheck(m) ==
  LET fcode == m.state.instreg.fcode
      cc    == m.state.cc
  IN CASE fcode = 0  -> [m |-> m, ok |-> TRUE]
       [] fcode = le -> [m |-> m, ok |-> cc.z \/ cc.s]
       [] fcode = l  -> [m |-> m, ok |-> cc.s]
       [] fcode = e  -> [m |-> m, ok |-> cc.z]
       [] fcode = ne -> [m |-> m, ok |-> ~cc.z]
       [] fcode = g  -> [m |-> m, ok |-> ~cc.s]
       [] fcode = ge -> [m |-> m, ok |-> ~(cc.z \/ cc.s)]
       [] OTHER      -> [m |-> [m EXCEPT !.state.status = ins], ok |-> FALSE]

setNextPC(m) ==
  LET opcode == m.state.instreg.opcode
      pc     == m.state.pc
  IN CASE opcode \in {halt, nop, ret} -> [m EXCEPT !.state.valP = pc + 1]
       [] opcode \in {rrmovq, opq, pushq, popq} -> [m EXCEPT !.state.valP = pc + 2]
       [] opcode \in {irmovq, rmmovq, mrmovq} -> [m EXCEPT !.state.valP = pc + 2 + WordBytes]
       [] opcode \in {jxx, call} -> [m EXCEPT !.state.valP = pc + 1 + WordBytes]
       [] OTHER -> [m EXCEPT !.state.status = ins]

\* The switch of fetch compares the whole byte at pc with the opcode
\* constants; a byte that equals none of them leaves size at 0.
fetchSize(b) ==
  CASE b \in {halt, nop, ret} -> 1
    [] b \in {rrmovq, opq, pushq, popq} -> 2
    [] b \in {irmovq, rmmovq, mrmovq} -> 2 + WordBytes
    [] b \in {jxx, call} -> 1 + WordBytes
    [] OTHER -> 0

fetch(m) ==
  LET pc == m.state.pc
  IN IF pc < 0 \/ pc >= maxMem THEN Crash(m)
     ELSE LET size == fetchSize(m.mem[pc])
              err  == readBytesFromMemFails(pc, size)
              instruction == IF err THEN <<>> ELSE readBytesFromMem(m, pc, size)
              m1   == IF err THEN [m EXCEPT !.state.status = adr] ELSE m
          IN IF createInstRegPanics(instruction) THEN Crash(m1)
             ELSE setNextPC([m1 EXCEPT !.state.instreg = createInstReg(instruction)])

\* A decode that starts every instruction other than halt from status OK.
decodeClearsStatus(m) ==
  LET instreg == m.state.instreg
      opcode  == instreg.opcode
  IN CASE opcode = halt -> [m EXCEPT !.state.status = hlt]
       [] opcode = nop -> [m EXCEPT !.state.status = aok]
       [] opcode \in {irmovq, rrmovq, rmmovq, mrmovq, jxx, opq} ->
            [m EXCEPT !.state.valA = readReg(m, instreg.rA),
                      !.state.valB = readReg(m, instreg.rB),
                      !.state.status = aok]
       [] opcode \in {call, ret, pushq, popq} ->
            [m EXCEPT !.state.valA = readReg(m, instreg.rA),
                      !.state.valB = readReg(m, stackPtrReg),
                      !.state.status = aok]
       [] OTHER -> [m EXCEPT !.state.status = ins]

decode(m) ==
  LET instreg == m.state.instreg
      opcode  == instreg.opcode
  IN CASE opcode = halt -> [m EXCEPT !.state.status = hlt]
       [] opcode = nop -> m
       [] opcode \in {irmovq, rrmovq, rmmovq, mrmovq, jxx, opq} ->
            [m EXCEPT !.state.valA = readReg(m, instreg.rA),
                      !.state.valB = readReg(m, instreg.rB)]
       [] opcode \in {call, ret, pushq, popq} ->
            [m EXCEPT !.state.valA = readReg(m, instreg.rA),
                      !.state.valB = readReg(m, stackPtrReg)]
       [] OTHER -> [m EXCEPT !.state.status = ins]

\* CPU.alu: only fcode = div is guarded against a zero divisor; an fcode
\* without an entry in the alu map calls a nil function, and mod by zero is
\* Go's integer-divide-by-zero panic.
alu(m, fcode, aluA, aluB) ==
  IF fcode = div /\ aluA = 0
  THEN [m |-> [m EXCEPT !.state.status = dz], val |-> aluB]
  ELSE IF fcode > mod \/ (fcode = mod /\ aluA = 0)
  THEN [m |-> Crash(m), val |-> 0]
  ELSE [m |-> m, val |-> aluTable(fcode, aluA, aluB)]

areBothNeg(a, b) == a < 0 /\ b < 0

areBothPos(a, b) == a > 0 /\ b > 0

areSameSign(a, b) == (a < 0) = (b < 0)

updateCC(m) ==
  LET s == m.state
  IN IF s.valE = 0 THEN [m EXCEPT !.state.cc.z = TRUE]
     ELSE LET m1 == IF s.valE < 0 THEN [m EXCEPT !.state.cc.z = TRUE] ELSE m
          IN CASE s.instreg.fcode = add ->
                    [m1 EXCEPT !.state.cc.of =
                       \/ s.valE > 0 /\ areBothNeg(s.valA, s.valB)
                       \/ s.valE < 0 /\ areBothPos(s.valA, s.valB)]
               [] s.instreg.fcode = mul ->
                    [m1 EXCEPT !.state.cc.of =
                       \/ s.valE > 0 /\ ~areSameSign(s.valA, s.valB)
                       \/ s.valE < 0 /\ areSameSign(s.valA, s.valB)]
               [] s.instreg.fcode = sub ->
                    [m1 EXCEPT !.state.cc.of =
                       \/ s.valE > 0 /\ s.valB < 0 /\ s.valA > 0
                       \/ s.valE < 0 /\ s.valB > 0 /\ s.valA < 0,
                               !.state.cc.s = s.valE < 0]
               [] OTHER -> m1

\* valE is assigned from alu's return value, so a crash inside alu leaves
\* valE as it was.
setValE(r) == IF r.m.panic THEN r.m ELSE [r.m EXCEPT !.state.valE = r.val]

\* An execute that updates the condition codes after every ALU use, not
\* only for opq.
executeAlwaysCC(m) ==
  LET s      == m.state
      opcode == s.instreg.opcode
      fcode  == s.instreg.fcode
      r      == CASE opcode = rrmovq -> setValE(alu(m, fcode, s.valA, 0))
                  [] opcode = irmovq -> setValE(alu(m, fcode, s.instreg.valC, 0))
                  [] opcode \in {rmmovq, mrmovq} ->
                       setValE(alu(m, fcode, s.valB, s.instreg.valC))
                  [] opcode = opq -> setValE(alu(m, fcode, s.valA, s.valB))
                  [] opcode \in {call, pushq} ->
                       setValE(alu(m, fcode, 0 - WordBytes, s.valB))
                  [] opcode \in {ret, popq} -> setValE(alu(m, fcode, WordBytes, s.valB))
                  [] OTHER -> m
  IN IF r.panic \/ opcode \notin rrmovq .. popq THEN r ELSE updateCC(r)

execute(m) ==
  LET s      == m.state
      opcode == s.instreg.opcode
      fcode  == s.instreg.fcode
  IN CASE opcode = rrmovq -> setValE(alu(m, fcode, s.valA, 0))
       [] opcode = irmovq -> setValE(alu(m, fcode, s.instreg.valC, 0))
       [] opcode \in {rmmovq, mrmovq} -> setValE(alu(m, fcode, s.valB, s.instreg.valC))
       [] opcode = opq ->
            LET m1 == setValE(alu(m, fcode, s.valA, s.valB))
            IN IF m1.panic THEN m1 ELSE updateCC(m1)
       [] opcode \in {call, pushq} -> setValE(alu(m, fcode, 0 - WordBytes, s.valB))
       [] opcode \in {ret, popq} -> setValE(alu(m, fcode, WordBytes, s.valB))
       [] OTHER -> m

setValM(r) == IF r.m.panic THEN r.m ELSE [r.m EXCEPT !.state.valM = r.val]

memory(m) ==
  LET s      == m.state
      opcode == s.instreg.opcode
  IN CASE opcode = rmmovq -> writeLongToMem(m, s.valE, s.valA)
       [] opcode = mrmovq -> setValM(readMem(m, s.valE))
       [] opcode = call -> writeLongToMem(m, s.valE, s.valP)
       [] opcode = ret -> setValM(readMem(m, s.valB))
       [] opcode = pushq -> writeLongToMem(m, s.valE, s.valA)
       [] opcode = popq -> setValM(readMem(m, s.valB))
       [] OTHER -> m

writeback(m) ==
  LET s       == m.state
      instreg == s.instreg
      opcode  == instreg.opcode
  IN CASE opcode = rrmovq -> writeReg(m, instreg.rB, s.valA)
       [] opcode = mrmovq -> writeReg(m, instreg.rA, s.valM)
       [] opcode \in {call, ret, pushq} -> writeReg(m, stackPtrReg, s.valE)
       [] opcode = popq -> writeReg(writeReg(m, instreg.rA, s.valM), stackPtrReg, s.valE)
       [] opcode = opq -> writeReg(m, instreg.rB, s.valE)
       [] OTHER -> m

updatePC(m) ==
  LET s      == m.state
      opcode == s.instreg.opcode
  IN CASE opcode = ret -> [m EXCEPT !.state.pc = s.valM]
       [] opcode = call -> [m EXCEPT !.state.pc = s.instreg.valC]
       [] opcode = jxx ->
            LET r == ccCheck(m)
            IN IF r.ok THEN [r.m EXCEPT !.state.pc = s.instreg.valC]
               ELSE [r.m EXCEPT !.state.pc = s.valP]
       [] OTHER -> [m EXCEPT !.state.pc = s.valP]

\* Tick runs the six stages in order; a stage that crashes ends the program.
TickOf(m) ==
  LET m1 == fetch(m)
      m2 == IF m1.panic THEN m1 ELSE decode(m1)
      m3 == IF m2.panic THEN m2 ELSE execute(m2)
      m4 == IF m3.panic THEN m3 ELSE memory(m3)
      m5 == IF m4.panic THEN m4 ELSE writeback(m4)
  IN IF m5.panic THEN m5 ELSE updatePC(m5)

(***************************************************************************)
(* Specification Spec: a CPU{} that callers set up (CopyBuf, writeReg,     *)
(* the loader's setEntryPoint) and step with Tick.                         *)
(***************************************************************************)
Snapshot == [mem |-> mem, reg |-> reg, state |-> state]

\* The scanner's fields after NewScanner; src is the source text as the
\* sequence of its characters, cur and start count from 0.
NewScanner(src) ==
  [src |-> src, cur |-> 0, start |-> 0, line |-> 1, col |-> 1, tokens |-> <<>>,
   panic |-> FALSE]

\* The parser's fields after NewParser; symbolTable and dataTable are maps,
\* modelled as functions on the set of their keys.  panic is the crash flag
\* of the run that uses the parser.
NewParser(tokens) ==
  [tokens |-> tokens, curr |-> 0, symbolTable |-> <<>>, dataTable |-> <<>>,
   instructionBuffer |-> <<>>, start |-> 0, lc |-> 0, panic |-> FALSE]

Install(m) ==
  /\ mem' = m.mem
  /\ reg' = m.reg
  /\ state' = m.state
  /\ panicked' = m.panic

\* Buffers the callers copy in: encoded instructions, and single raw bytes.
LoadOpcodes == halt .. popq
LoadFcodes == {0, 6}
LoadConst == 256 + 2
RawBytes == {1, 11, 12, 48, 192}

LoadBufs ==
  {EncodeInst(op, f, 1, 2, LoadConst) : op \in LoadOpcodes, f \in LoadFcodes}
    \cup {<<b>> : b \in RawBytes}

LoadAddrs == {0, 1, maxMem - 2, maxMem - 1}

EntryPoints == {0, 1, maxMem - 2, maxMem - 1, maxMem}

SetupRegs == {1, stackPtrReg}
SetupVals == {0, 10}

Init ==
  /\ mem = ZeroCPU.mem
  /\ reg = ZeroCPU.reg
  /\ state = ZeroCPU.state
  /\ panicked = FALSE
  /\ last = "init"
  /\ prev = [mem |-> ZeroCPU.mem, reg |-> ZeroCPU.reg, state |-> ZeroCPU.state]
  /\ stage = "idle"
  /\ setups = 0
  /\ ticks = 0
  /\ io = <<>>
  /\ parser = NewParser(<<>>)
  /\ scanner = NewScanner(<<>>)

DoCopyBuf ==
  /\ ~panicked
  /\ setups < MaxSetup
  /\ \E addr \in LoadAddrs, buf \in LoadBufs :
       Install(CopyBuf(Machine, addr, buf))
  /\ last' = "CopyBuf"
  /\ setups' = setups + 1
  /\ UNCHANGED <<scanner, io, parser, prev, stage, ticks>>

DoWriteReg ==
  /\ ~panicked
  /\ setups < MaxSetup
  /\ \E index \in SetupRegs, val \in SetupVals :
       Install(writeReg(Machine, index, val))
  /\ last' = "writeReg"
  /\ setups' = setups + 1
  /\ UNCHANGED <<scanner, io, parser, prev, stage, ticks>>

setEntryPoint(m, start) == [m EXCEPT !.state.pc = start]

DoSetEntryPoint ==
  /\ ~panicked
  /\ setups < MaxSetup
  /\ \E start \in EntryPoints :
       Install(setEntryPoint(Machine, start))
  /\ last' = "setEntryPoint"
  /\ setups' = setups + 1
  /\ UNCHANGED <<scanner, io, parser, prev, stage, ticks>>

Tick ==
  /\ ~panicked
  /\ ticks < MaxTicks
  /\ Install(TickOf(Machine))
  /\ prev' = Snapshot
  /\ last' = "Tick"
  /\ ticks' = ticks + 1
  /\ UNCHANGED <<scanner, io, parser, stage, setups>>

Next == DoCopyBuf \/ DoWriteReg \/ DoSetEntryPoint \/ Tick

Spec == Init /\ [][Next]_vars

TypeOK ==
  /\ mem \in [Addr -> 0 .. 255]
  /\ reg \in [0 .. numReg - 1 -> MinInt .. MaxInt]
  /\ panicked \in BOOLEAN
  /\ state.status \in {aok, hlt, adr, ins, dz}

(***************************************************************************)
(* Specification SpecPipe: the stages of Tick after fetch, one action per  *)
(* stage method, started from an instruction register that holds           *)
(* createInstReg of an instruction's bytes (the tail of fetch: instreg and *)
(* setNextPC), for every opcode, with the tabulated number of bytes.       *)
(* Tick's own fetch delivers such a register only for the bytes 0 .. 11    *)
(* (see fetchSize), so these are the runs of in-package callers that set   *)
(* the CPU's fields and call the stage methods in Tick's order, the way    *)
(* TestCCOverflow drives updateCC.                                         *)
(***************************************************************************)
CCs == [of : BOOLEAN, z : BOOLEAN, s : BOOLEAN]

NoCC == [of |-> FALSE, z |-> FALSE, s |-> FALSE]

AluVals ==
  {MinInt, MinInt + 1, 0 - 4096, 0 - 2, 0 - 1, 0, 1, 2, 3, 4096, MaxInt - 1, MaxInt}

DataAddr == 2 * WordBytes
DataVal == 256 + 5

\* Stack pointers and base addresses around both ends of memory.
SpVals ==
  {0 - 1, 0, WordBytes, DataAddr, maxMem - WordBytes, maxMem - WordBytes + 1,
   maxMem + WordBytes}

AluCases ==
  [op : {opq}, f : 0 .. 7, rA : {1}, rB : {2}, c : {0},
   a : AluVals, b : AluVals, sp : {0}, cc : CCs,
   st : {aok}]

JxxCases ==
  [op : {jxx}, f : 0 .. 7, rA : {0}, rB : {0}, c : {DataAddr, 256 + 2, 0 - 1},
   a : {0}, b : {0}, sp : {0}, cc : CCs,
   st : {aok}]

MoveCases ==
  [op : {halt, nop, rrmovq, irmovq}, f : {0, 1, 5, 7}, rA : {1, 15}, rB : {2},
   c : {0, 1, DataAddr, 256 + 2, 0 - 1}, a : {0 - 1, 0, 7}, b : {0, 5},
   sp : {0}, cc : {NoCC, [of |-> TRUE, z |-> TRUE, s |-> TRUE]},
   st : {aok}]

MemCases ==
  [op : {rmmovq, mrmovq, call, ret, pushq, popq}, f : {0}, rA : {1, stackPtrReg},
   rB : {2}, c : {0, 1, 256 + 2}, a : {7}, b : SpVals, sp : SpVals, cc : {NoCC},
   st : {aok}]

\* Ticks that start with a status other than OK, left by an earlier tick.
StatusCases ==
  [op : {halt, nop, irmovq, rmmovq, opq, jxx}, f : {0}, rA : {1}, rB : {2},
   c : {0, 1}, a : {0, 7}, b : {0}, sp : {0}, cc : {NoCC},
   st : {hlt, adr, ins, dz}]

PipeCases == AluCases \cup JxxCases \cup MoveCases \cup MemCases \cup StatusCases

\* The CPU with the registers of case k, the instruction's bytes at address
\* 0, a data word at DataAddr, and the instruction register loaded.
PipeStart(k) ==
  LET inst == EncodeInst(k.op, k.f, k.rA, k.rB, k.c)
      m0   == [ZeroCPU EXCEPT
                 !.reg = [i \in 0 .. numReg - 1 |->
                            IF i = 1 THEN k.a
                            ELSE IF i = 2 THEN k.b
                            ELSE IF i = stackPtrReg THEN k.sp ELSE 0],
                 !.state.cc = k.cc,
                 !.state.status = k.st]
      m1   == CopyBuf(m0, 0, inst)
      m2   == writeLongToMem(m1, DataAddr, DataVal)
  IN setNextPC([m2 EXCEPT !.state.instreg = createInstReg(inst)])

InitPipe ==
  \E k \in PipeCases :
    LET m == PipeStart(k)
    IN /\ mem = m.mem
       /\ reg = m.reg
       /\ state = m.state
       /\ panicked = FALSE
       /\ prev = [mem |-> m.mem, reg |-> m.reg, state |-> m.state]
       /\ last = "fetch"
       /\ stage = "decode"
       /\ setups = 0
       /\ ticks = 0
       /\ io = <<>>
       /\ parser = NewParser(<<>>)
       /\ scanner = NewScanner(<<>>)

Decode ==
  /\ ~panicked
  /\ stage = "decode"
  /\ Install(decode(Machine))
  /\ stage' = "execute"
  /\ last' = "decode"
  /\ UNCHANGED <<scanner, io, parser, prev, setups, ticks>>

Execute ==
  /\ ~panicked
  /\ stage = "execute"
  /\ Install(execute(Machine))
  /\ stage' = "memory"
  /\ last' = "execute"
  /\ UNCHANGED <<scanner, io, parser, prev, setups, ticks>>

Memory ==
  /\ ~panicked
  /\ stage = "memory"
  /\ Install(memory(Machine))
  /\ stage' = "writeback"
  /\ last' = "memory"
  /\ UNCHANGED <<scanner, io, parser, prev, setups, ticks>>

Writeback ==
  /\ ~panicked
  /\ stage = "writeback"
  /\ Install(writeback(Machine))
  /\ stage' = "updatePC"
  /\ last' = "writeback"
  /\ UNCHANGED <<scanner, io, parser, prev, setups, ticks>>

UpdatePC ==
  /\ ~panicked
  /\ stage = "updatePC"
  /\ Install(updatePC(Machine))
  /\ stage' = "done"
  /\ last' = "updatePC"
  /\ UNCHANGED <<scanner, io, parser, prev, setups, ticks>>

NextPipe == Decode \/ Execute \/ Memory \/ Writeback \/ UpdatePC

SpecPipe == InitPipe /\ [][NextPipe]_vars

(***************************************************************************)
(* Specification SpecMem: the memory operations of the CPU called one by   *)
(* one, as the package's tests and the loader call them, on a CPU whose    *)
(* status an earlier access may have set.  io is the history of the calls: *)
(* operation, arguments, status before the call, returned value and error. *)
(***************************************************************************)
MaxMemOps == 2

MemAddrs ==
  {0 - 1, 0, 1, maxMem - WordBytes - 1, maxMem - WordBytes,
   maxMem - WordBytes + 1, maxMem - 1, maxMem}

MemVals == {MinInt, 0 - 2, 0, 256 + 2, MaxInt}

MemBufs == {<<7>>, <<9, 8, 7>>}

MemSizes == {1, WordBytes}

MemStatuses == {aok, adr}

Call(op, addr, size, val, buf, out, err) ==
  [op |-> op, addr |-> addr, size |-> size, val |-> val, buf |-> buf,
   ret |-> out, err |-> err, status |-> state.status]

InitMem ==
  /\ mem = ZeroCPU.mem
  /\ reg = ZeroCPU.reg
  /\ \E st \in MemStatuses : state = [ZeroCPU.state EXCEPT !.status = st]
  /\ panicked = FALSE
  /\ last = "init"
  /\ prev = [mem |-> mem, reg |-> reg, state |-> state]
  /\ stage = "idle"
  /\ setups = 0
  /\ ticks = 0
  /\ io = <<>>
  /\ parser = NewParser(<<>>)
  /\ scanner = NewScanner(<<>>)

MemWriteLong ==
  /\ ~panicked
  /\ Len(io) < MaxMemOps
  /\ \E addr \in MemAddrs, val \in MemVals :
       /\ Install(writeLongToMem(Machine, addr, val))
       /\ io' = Append(io, Call("writeLongToMem", addr, WordBytes, val, <<>>, 0, FALSE))
  /\ prev' = Snapshot
  /\ last' = "writeLongToMem"
  /\ UNCHANGED <<scanner, parser, stage, setups, ticks>>

MemRead ==
  /\ ~panicked
  /\ Len(io) < MaxMemOps
  /\ \E addr \in MemAddrs :
       LET r == readMem(Machine, addr)
       IN /\ Install(r.m)
          /\ io' = Append(io, Call("readMem", addr, WordBytes, 0, <<>>, r.val, FALSE))
  /\ prev' = Snapshot
  /\ last' = "readMem"
  /\ UNCHANGED <<scanner, parser, stage, setups, ticks>>

MemCopyBuf ==
  /\ ~panicked
  /\ Len(io) < MaxMemOps
  /\ \E addr \in MemAddrs, buf \in MemBufs :
       /\ Install(CopyBuf(Machine, addr, buf))
       /\ io' = Append(io, Call("CopyBuf", addr, Len(buf), 0, buf, 0, CopyBufFails(addr, buf)))
  /\ prev' = Snapshot
  /\ last' = "CopyBuf"
  /\ UNCHANGED <<scanner, parser, stage, setups, ticks>>

MemWriteBytes ==
  /\ ~panicked
  /\ Len(io) < MaxMemOps
  /\ \E addr \in MemAddrs, buf \in MemBufs :
       /\ Install(writeBytesToMem(Machine, addr, buf))
       /\ io' = Append(io, Call("writeBytesToMem", addr, Len(buf), 0, buf, 0,
                                writeBytesToMemFails(addr, buf)))
  /\ prev' = Snapshot
  /\ last' = "writeBytesToMem"
  /\ UNCHANGED <<scanner, parser, stage, setups, ticks>>

MemReadBytes ==
  /\ ~panicked
  /\ Len(io) < MaxMemOps
  /\ \E addr \in MemAddrs, size \in MemSizes :
       LET err == readBytesFromMemFails(addr, size)
       IN io' = Append(io, Call("readBytesFromMem", addr, size, 0,
                                IF err THEN <<>> ELSE readBytesFromMem(Machine, addr, size),
                                0, err))
  /\ prev' = Snapshot
  /\ last' = "readBytesFromMem"
  /\ UNCHANGED <<scanner, mem, reg, state, panicked, parser, stage, setups, ticks>>

NextMem == MemWriteLong \/ MemRead \/ MemCopyBuf \/ MemWriteBytes \/ MemReadBytes

SpecMem == InitMem /\ [][NextMem]_vars

(***************************************************************************)
(* Specification SpecCodec: the encoding helpers as pure functions.  The   *)
(* first call of a run takes its input from a bounded set, every later     *)
(* call takes the result of the call before it: intToBytes and bytesToInt  *)
(* alternate, and so do EncodeInst and createInstReg.  A call is recorded  *)
(* in io as [op, val, buf, inst]: the word, the bytes and the instruction  *)
(* fields it consumed or produced.                                         *)
(***************************************************************************)
MaxCodecOps == 2

CodecVals ==
  {MinInt, 0 - 256 - 2, 0 - 1, 0, 1, 255, 256 + 2, 65536 + 2 * 256 + 3, MaxInt}

CodecByteVals == {0, 1, 127, 128, 255}

CodecBytes ==
  [1 .. WordBytes -> CodecByteVals] \cup [1 .. WordBytes - 1 -> {1, 255}]

CodecConsts == {MinInt, 0 - 1, 0, 1, 255, 256 + 2, MaxInt}

CodecInsts ==
  [opcode : halt .. popq, fcode : {0, 1, 6, 7}, rA : {0, 3, 15}, rB : {0, 4, 15},
   valC : CodecConsts]

\* Slices fetch can hand to createInstReg without EncodeInst.
CodecRaw == {<<>>, <<0>>, <<16 * opq + 1, 16 * 1 + 2>>, <<16 * jxx>>}

Conv(op, val, buf, inst) == [op |-> op, val |-> val, buf |-> buf, inst |-> inst]

CodecIntToBytes ==
  /\ ~panicked
  /\ Len(io) < MaxCodecOps
  /\ \E val \in (IF io = <<>> THEN CodecVals
                 ELSE IF io[Len(io)].op = "bytesToInt" THEN {io[Len(io)].val}
                 ELSE {}) :
       io' = Append(io, Conv("intToBytes", val, intToBytes(val), ZeroInstReg))
  /\ last' = "intToBytes"
  /\ UNCHANGED <<scanner, mem, reg, state, panicked, prev, stage, setups, ticks, parser>>

CodecBytesToInt ==
  /\ ~panicked
  /\ Len(io) < MaxCodecOps
  /\ \E bytes \in (IF io = <<>> THEN CodecBytes
                   ELSE IF io[Len(io)].op = "intToBytes" THEN {io[Len(io)].buf}
                   ELSE {}) :
       io' = Append(io, Conv("bytesToInt", bytesToInt(bytes), bytes, ZeroInstReg))
  /\ last' = "bytesToInt"
  /\ UNCHANGED <<scanner, mem, reg, state, panicked, prev, stage, setups, ticks, parser>>

CodecEncodeInst ==
  /\ ~panicked
  /\ Len(io) < MaxCodecOps
  /\ \E i \in (IF io = <<>> THEN CodecInsts
               ELSE IF io[Len(io)].op = "createInstReg" THEN {io[Len(io)].inst}
               ELSE {}) :
       IF EncodeInstPanics(i.opcode, i.fcode)
       THEN /\ panicked' = TRUE
            /\ io' = Append(io, Conv("EncodeInst", 0, <<>>, i))
       ELSE /\ panicked' = FALSE
            /\ io' = Append(io, Conv("EncodeInst", 0,
                                     EncodeInst(i.opcode, i.fcode, i.rA, i.rB, i.valC), i))
  /\ last' = "EncodeInst"
  /\ UNCHANGED <<scanner, mem, reg, state, prev, stage, setups, ticks, parser>>

CodecCreateInstReg ==
  /\ ~panicked
  /\ Len(io) < MaxCodecOps
  /\ \E bytes \in (IF io = <<>> THEN CodecRaw
                   ELSE IF io[Len(io)].op = "EncodeInst" THEN {io[Len(io)].buf}
                   ELSE {}) :
       IF createInstRegPanics(bytes)
       THEN /\ panicked' = TRUE
            /\ io' = Append(io, Conv("createInstReg", 0, bytes, ZeroInstReg))
       ELSE /\ panicked' = FALSE
            /\ io' = Append(io, Conv("createInstReg", 0, bytes, createInstReg(bytes)))
  /\ last' = "createInstReg"
  /\ UNCHANGED <<scanner, mem, reg, state, prev, stage, setups, ticks, parser>>

NextCodec ==
  CodecIntToBytes \/ CodecBytesToInt \/ CodecEncodeInst \/ CodecCreateInstReg

SpecCodec == Init /\ [][NextCodec]_vars

(***************************************************************************)
(* The assembler's parser (parser.go).  A token is [tokenType, lex]; the   *)
(* token types are the names of the TokenType constants.  line and col     *)
(* only feed the text of error messages and are left out; an error is the  *)
(* fixed part of its message, "" is nil.  An operation of the parser       *)
(* returns [p, err]: the parser after the call and the error.              *)
(***************************************************************************)
Tok(tokenType, lex) == [tokenType |-> tokenType, lex |-> lex]

Mnemonics ==
  {"halt", "nop", "rrmovq", "irmovq", "rmmovq", "mrmovq", "addq", "subq", "andq",
   "xorq", "mulq", "divq", "modq", "jmp", "jle", "jl", "je", "jne", "jge", "jg",
   "call", "ret", "pushq", "popq"}

\* instructionTable: opcode, fcode, size (sizes 9 and 10 scaled).
instructionTable ==
  [lex \in Mnemonics |->
     CASE lex = "halt"   -> <<0, 0, 1>>
       [] lex = "nop"    -> <<1, 0, 1>>
       [] lex = "rrmovq" -> <<2, 0, 2>>
       [] lex = "irmovq" -> <<3, 0, 2 + WordBytes>>
       [] lex = "rmmovq" -> <<4, 0, 2 + WordBytes>>
       [] lex = "mrmovq" -> <<5, 0, 2 + WordBytes>>
       [] lex = "addq"   -> <<6, 0, 2>>
       [] lex = "subq"   -> <<6, 1, 2>>
       [] lex = "andq"   -> <<6, 2, 2>>
       [] lex = "xorq"   -> <<6, 3, 2>>
       [] lex = "mulq"   -> <<6, 4, 2>>
       [] lex = "divq"   -> <<6, 4, 2>>
       [] lex = "modq"   -> <<6, 5, 2>>
       [] lex = "jmp"    -> <<7, 0, 1 + WordBytes>>
       [] lex = "jle"    -> <<7, 1, 1 + WordBytes>>
       [] lex = "jl"     -> <<7, 2, 1 + WordBytes>>
       [] lex = "je"     -> <<7, 3, 1 + WordBytes>>
       [] lex = "jne"    -> <<7, 4, 1 + WordBytes>>
       [] lex = "jge"    -> <<7, 5, 1 + WordBytes>>
       [] lex = "jg"     -> <<7, 6, 1 + WordBytes>>
       [] lex = "call"   -> <<8, 0, 1 + WordBytes>>
       [] lex = "ret"    -> <<9, 0, 1>>
       [] lex = "pushq"  -> <<10, 0, 2>>
       [] lex = "popq"   -> <<11, 0, 2>>]

RegNames ==
  {"%rax", "%rcx", "%rdx", "%rbx", "%rsp", "%rbp", "%rsi", "%rdi", "%r8", "%r9",
   "%r10", "%r11", "%r12", "%r13", "%r14", "%r15"}

registerTable ==
  [lex \in RegNames |->
     CASE lex = "%rax" -> 0
       [] lex = "%rcx" -> 1
       [] lex = "%rdx" -> 2
       [] lex = "%rbx" -> 3
       [] lex = "%rsp" -> 4
       [] lex = "%rbp" -> 5
       [] lex = "%rsi" -> 6
       [] lex = "%rdi" -> 7
       [] lex = "%r8"  -> 8
       [] lex = "%r9"  -> 9
       [] lex = "%r10" -> 10
       [] lex = "%r11" -> 11
       [] lex = "%r12" -> 12
       [] lex = "%r13" -> 13
       [] lex = "%r14" -> 14
       [] lex = "%r15" -> 15]

\* The encoders the dispatch table has an entry for; every other opcode
\* maps to a nil function.
parseDispatchTable ==
  [opcode \in {halt, nop, opq, irmovq, mrmovq} |->
     CASE opcode \in {halt, nop} -> "parse1Byte"
       [] opcode = opq -> "parse2Byte"
       [] opcode = irmovq -> "parseIrmovq"
       [] opcode = mrmovq -> "parseMrmovq"]

\* strconv.ParseInt(lex, 0, 0) on the literals of the model's programs:
\* decimal, 0x-prefixed hexadecimal, and 0 with an error for anything else.
ParseInt(lex) ==
  CASE lex = "0" -> 0
    [] lex = "1" -> 1
    [] lex = "3" -> 3
    [] lex = "6" -> 6
    [] lex = "9" -> 9
    [] lex = "11" -> 11
    [] lex = "258" -> 258
    [] lex = "0x6" -> 6
    [] lex = "0x10" -> 16
    [] OTHER -> 0

\* A map read that yields the zero value for a missing key, and a map write.
MapGet(f, k) == IF k \in DOMAIN f THEN f[k] ELSE 0

MapPut(f, k, v) == [x \in DOMAIN f \cup {k} |-> IF x = k THEN v ELSE f[x]]

Zeros(n) == [i \in 1 .. n |-> 0]

\* bytes with src copied over it from 0-based offset off (Go's copy).
CopyAt(bytes, off, src) ==
  [i \in 1 .. Len(bytes) |->
     IF i > off /\ i - off <= Len(src) THEN src[i - off] ELSE bytes[i]]

isAtEnd(p) == p.tokens[p.curr + 1].tokenType = "eof"

\* advance returns tokens[curr-1] after the increment; at the end it does
\* not move and returns the token before eof again.
advance(p) ==
  LET p1 == IF isAtEnd(p) THEN p ELSE [p EXCEPT !.curr = @ + 1]
  IN [p |-> p1, tok |-> p1.tokens[p1.curr]]

peek(p) == p.tokens[p.curr + 1]

IsEof(tokens) == \A i \in 1 .. Len(tokens) : tokens[i].tokenType = "eof"

IsValidArgs(args, expected) ==
  /\ Len(args) = Len(expected)
  /\ Len(args) # 0
  /\ \A i \in 1 .. Len(args) : args[i].tokenType = expected[i]

parseDirective(p, token) ==
  LET a    == advance(p)
      next == a.tok
  IN IF next.tokenType # "num" THEN [p |-> a.p, err |-> "invalid directive"]
     ELSE CASE token.lex = ".pos" ->
                 [p |-> [a.p EXCEPT
                           !.start = IF a.p.start = 0 /\ peek(a.p).tokenType = "instruction"
                                     THEN ParseInt(next.lex) ELSE @,
                           !.lc = ParseInt(next.lex)],
                  err |-> ""]
            [] token.lex = ".quad" ->
                 [p |-> [a.p EXCEPT
                           !.dataTable = MapPut(@, a.p.lc, ParseInt(next.lex)),
                           !.lc = @ + WordBytes],
                  err |-> ""]
            [] OTHER -> [p |-> a.p, err |-> ""]

parse1Byte(token, opcode, fcode, size, p) ==
  LET instruction == [Zeros(size) EXCEPT ![1] = ((opcode * 16) % 256) + fcode]
  IN [p |-> [p EXCEPT !.instructionBuffer = Append(@, instruction)], err |-> ""]

\* parse2Byte fills instruction[1] only: instruction[0] keeps the zero of
\* make([]byte, size).
parse2Byte(token, opcode, fcode, size, p) ==
  LET a1   == advance(p)
      a2   == advance(a1.p)
      a3   == advance(a2.p)
      args == <<a1.tok, a2.tok, a3.tok>>
      p3   == a3.p
  IN IF IsEof(args) THEN [p |-> p3, err |-> "unexpected eof"]
     ELSE IF ~IsValidArgs(args, <<"reg", "comma", "reg">>)
     THEN [p |-> p3, err |-> "invalid arguments"]
     ELSE IF args[1].lex \notin DOMAIN registerTable \/ args[3].lex \notin DOMAIN registerTable
     THEN [p |-> p3, err |-> "invalid register"]
     ELSE LET rA == registerTable[args[1].lex]
              rB == registerTable[args[3].lex]
              instruction == [Zeros(size) EXCEPT ![2] = ((rA * 16) % 256) + rB]
          IN [p |-> [p3 EXCEPT !.instructionBuffer = Append(@, instruction)], err |-> ""]

parseIrmovq(token, opcode, fcode, size, p) ==
  LET a1   == advance(p)
      a2   == advance(a1.p)
      a3   == advance(a2.p)
      args == <<a1.tok, a2.tok, a3.tok>>
      p3   == a3.p
  IN IF IsEof(args) THEN [p |-> p3, err |-> "unexpected eof"]
     ELSE IF ~IsValidArgs(args, <<"label", "comma", "reg">>)
               /\ ~IsValidArgs(args, <<"num", "comma", "reg">>)
     THEN [p |-> p3, err |-> "invalid arguments"]
     ELSE IF args[3].lex \notin DOMAIN registerTable
     THEN [p |-> p3, err |-> "invalid register"]
     ELSE LET rA  == 15
              rB  == registerTable[args[3].lex]
              val == IF args[1].tokenType = "num" THEN ParseInt(args[1].lex)
                     ELSE MapGet(p3.symbolTable, args[1].lex)
              b0  == [Zeros(size) EXCEPT ![1] = ((opcode * 16) % 256) + fcode,
                                         ![2] = ((rA * 16) % 256) + rB]
              bytes == CopyAt(b0, 2, intToBytes(val))
          IN [p |-> [p3 EXCEPT !.instructionBuffer = Append(@, bytes),
                               !.lc = @ + size],
              err |-> ""]

parseMrmovq(token, opcode, fcode, size, p) ==
  LET a0    == advance(p)
      isNum == a0.tok.tokenType = "num"
      valC  == IF isNum THEN ParseInt(a0.tok.lex) ELSE 0
      b0    == IF isNum THEN advance(a0.p) ELSE a0
      a1    == advance(b0.p)
      a2    == advance(a1.p)
      a3    == advance(a2.p)
      a4    == advance(a3.p)
      args  == <<b0.tok, a1.tok, a2.tok, a3.tok, a4.tok>>
      p4    == a4.p
  IN IF a0.tok.tokenType = "eof" THEN [p |-> a0.p, err |-> "unexpected eof"]
     ELSE IF a0.tok.tokenType \notin {"lparen", "num"}
     THEN [p |-> a0.p, err |-> "invalid arguments"]
     ELSE IF IsEof(args) THEN [p |-> p4, err |-> "unexpected eof"]
     ELSE IF ~IsValidArgs(args, <<"lparen", "reg", "rparen", "comma", "reg">>)
     THEN [p |-> p4, err |-> "invalid arguments"]
     ELSE LET rB == MapGet(registerTable, args[2].lex)
              rA == MapGet(registerTable, args[5].lex)
              b1 == [Zeros(size) EXCEPT ![1] = ((opcode * 16) % 256) + fcode,
                                        ![2] = ((rA * 16) % 256) + rB]
              bytes == CopyAt(b1, 2, intToBytes(valC))
          IN [p |-> [p4 EXCEPT !.instructionBuffer = Append(@, bytes),
                               !.lc = @ + size],
              err |-> ""]

\* Calling the entry of an opcode the dispatch table does not have is a
\* call of a nil function: the program crashes.
parseInstruction(p, token) ==
  LET instructionInfo == instructionTable[token.lex]
      opcode == instructionInfo[1]
      fcode  == instructionInfo[2]
      size   == instructionInfo[3]
  IN IF opcode \notin DOMAIN parseDispatchTable
     THEN [p |-> [p EXCEPT !.panic = TRUE], err |-> ""]
     ELSE CASE parseDispatchTable[opcode] = "parse1Byte" ->
                 parse1Byte(token, opcode, fcode, size, p)
            [] parseDispatchTable[opcode] = "parse2Byte" ->
                 parse2Byte(token, opcode, fcode, size, p)
            [] parseDispatchTable[opcode] = "parseIrmovq" ->
                 parseIrmovq(token, opcode, fcode, size, p)
            [] parseDispatchTable[opcode] = "parseMrmovq" ->
                 parseMrmovq(token, opcode, fcode, size, p)

\* One iteration of the loop of firstPass.
firstPassStep(p) ==
  LET a         == advance(p)
      currToken == a.tok
  IN CASE currToken.tokenType = "dir" -> parseDirective(a.p, currToken)
       [] currToken.tokenType = "instruction" ->
            [p |-> [a.p EXCEPT !.lc = @ + instructionTable[currToken.lex][3]], err |-> ""]
       [] currToken.tokenType = "label" ->
            [p |-> IF peek(a.p).tokenType = "colon"
                   THEN [a.p EXCEPT !.symbolTable = MapPut(@, currToken.lex, a.p.lc)]
                   ELSE a.p,
             err |-> ""]
       [] OTHER -> [p |-> a.p, err |-> ""]

\* A secondPass that records labels again, the way firstPass does.
secondPassStepLabels(p) ==
  LET a         == advance(p)
      currToken == a.tok
  IN CASE currToken.tokenType = "dir" ->
            [p |-> parseDirective(a.p, currToken).p, err |-> ""]
       [] currToken.tokenType = "instruction" ->
            [p |-> parseInstruction(a.p, currToken).p, err |-> ""]
       [] currToken.tokenType = "label" ->
            [p |-> IF peek(a.p).tokenType = "colon"
                   THEN [a.p EXCEPT !.symbolTable = MapPut(@, currToken.lex, a.p.lc)]
                   ELSE a.p,
             err |-> ""]
       [] OTHER -> [p |-> a.p, err |-> ""]

\* One iteration of the loop of secondPass; the errors of parseDirective
\* and parseInstruction are dropped.
secondPassStep(p) ==
  LET a         == advance(p)
      currToken == a.tok
  IN CASE currToken.tokenType = "dir" ->
            [p |-> parseDirective(a.p, currToken).p, err |-> ""]
       [] currToken.tokenType = "instruction" ->
            [p |-> parseInstruction(a.p, currToken).p, err |-> ""]
       [] OTHER -> [p |-> a.p, err |-> ""]

(***************************************************************************)
(* Specification SpecParse: Parse on the token list of a program, one      *)
(* action per loop iteration of the two passes.  stage is the position     *)
(* inside Parse; io holds the token the last iteration took, its index,    *)
(* the parser before the iteration, err1 of Parse and what Parse returned. *)
(***************************************************************************)
Instr(m) == Tok("instruction", m)
Reg(r) == Tok("reg", r)
Num(n) == Tok("num", n)
Label(n) == Tok("label", n)
Dir(d) == Tok("dir", d)
Comma == Tok("comma", ",")
Colon == Tok("colon", ":")
LParen == Tok("lparen", "(")
RParen == Tok("rparen", ")")
Eof == Tok("eof", "")

OpqMnemonics == {"addq", "subq", "andq", "xorq", "mulq", "divq", "modq"}
JxxMnemonics == {"jmp", "jle", "jl", "je", "jne", "jge", "jg"}

ProgRegs == {"%rcx", "%rbx", "%r14"}
ProgNums == {"3", "258", "0x6"}

\* The well-formed single instances of mnemonic m, in the source syntax of
\* its family; a jump or call stands behind the definition of its target.
WellFormed(m) ==
  CASE m \in {"halt", "nop", "ret"} -> {<<Instr(m)>>}
    [] m \in {"rrmovq"} \cup OpqMnemonics ->
         {<<Instr(m), Reg(a), Comma, Reg(b)>> : a \in ProgRegs, b \in ProgRegs}
    [] m = "irmovq" ->
         {<<Instr(m), Num(n), Comma, Reg(b)>> : n \in ProgNums, b \in ProgRegs}
           \cup {<<Label("t"), Colon, Instr(m), Label("t"), Comma, Reg(b)>> : b \in ProgRegs}
    [] m = "rmmovq" ->
         {<<Instr(m), Reg(a), Comma, Num(n), LParen, Reg(b), RParen>> :
            n \in ProgNums, a \in ProgRegs, b \in ProgRegs}
    [] m = "mrmovq" ->
         {<<Instr(m), Num(n), LParen, Reg(b), RParen, Comma, Reg(a)>> :
            n \in ProgNums, a \in ProgRegs, b \in ProgRegs}
           \cup {<<Instr(m), LParen, Reg(b), RParen, Comma, Reg(a)>> :
                   a \in ProgRegs, b \in ProgRegs}
    [] m \in JxxMnemonics \cup {"call"} -> {<<Label("t"), Colon, Instr(m), Label("t")>>}
    [] m \in {"pushq", "popq"} -> {<<Instr(m), Reg(a)>> : a \in ProgRegs}

SingleInstance(m) == {w \o <<Eof>> : w \in WellFormed(m)}

\* Programs of several lines: directives, data, labels and instructions.
LongPrograms ==
  {<<Dir(".pos"), Num("0x6"), Instr("irmovq"), Num("3"), Comma, Reg("%rbx"),
     Instr("mulq"), Reg("%rcx"), Comma, Reg("%rbx"),
     Instr("divq"), Reg("%rcx"), Comma, Reg("%rbx"),
     Instr("modq"), Reg("%rcx"), Comma, Reg("%rbx"), Instr("halt"), Eof>>,
   <<Instr("nop"), Label("d"), Colon, Dir(".quad"), Num("258"),
     Instr("mrmovq"), LParen, Reg("%rbx"), RParen, Comma, Reg("%rcx"),
     Instr("halt"), Eof>>,
   <<Dir(".pos"), Label("d"), Instr("addq"), Reg("%rcx"), Comma, Reg("%rbx"), Eof>>,
   <<Instr("addq"), Reg("%rcx"), Eof>>}

\* Programs whose instructions name a label: defined before the use, after
\* it, or nowhere.
LabelPrograms ==
  {<<Instr("irmovq"), Label("t"), Comma, Reg("%rbx"), Instr("nop"),
     Label("t"), Colon, Instr("halt"), Eof>>,
   <<Dir(".pos"), Num("0x6"), Instr("nop"), Label("t"), Colon, Instr("halt"),
     Instr("irmovq"), Label("t"), Comma, Reg("%rcx"), Eof>>,
   <<Instr("jmp"), Label("t"), Instr("halt"), Label("t"), Colon, Instr("nop"),
     Instr("halt"), Eof>>,
   <<Instr("nop"), Instr("call"), Label("t"), Instr("halt"), Label("t"), Colon,
     Instr("ret"), Eof>>,
   <<Instr("irmovq"), Label("u"), Comma, Reg("%rbx"), Instr("halt"), Eof>>,
   <<Label("t"), Colon, Instr("nop"), Instr("irmovq"), Label("u"), Comma,
     Reg("%rcx"), Eof>>}

\* Programs with an instruction of the wrong shape, with an unknown
\* register, or cut off by the end of the input.
MalformedPrograms ==
  {<<Instr("addq"), Reg("%rcx"), Eof>>,
   <<Instr("nop"), Instr("irmovq"), Num("3"), Eof>>,
   <<Instr("mrmovq"), Num("3"), LParen, Reg("%rbx"), Eof>>,
   <<Instr("addq"), Reg("%rcx"), Reg("%rbx"), Comma, Eof>>,
   <<Instr("irmovq"), Reg("%rcx"), Comma, Reg("%rbx"), Instr("halt"), Eof>>,
   <<Instr("mrmovq"), Reg("%rcx"), Comma, Reg("%rbx"), Instr("halt"), Eof>>,
   <<Instr("subq"), Reg("%rcx"), Comma, Reg("%rzz"), Instr("halt"), Eof>>,
   <<Instr("irmovq"), Num("3"), Comma, Reg("%rzz"), Eof>>}

\* Programs with .pos directives, data and labels around the first
\* instruction.
EntryPrograms ==
  {<<Dir(".pos"), Num("0x6"), Instr("halt"), Eof>>,
   <<Dir(".pos"), Num("0x6"), Label("main"), Colon, Instr("halt"), Eof>>,
   <<Dir(".pos"), Num("3"), Dir(".quad"), Num("258"), Instr("halt"), Eof>>,
   <<Instr("nop"), Dir(".pos"), Num("6"), Instr("halt"), Eof>>,
   <<Dir(".quad"), Num("258"), Instr("nop"), Instr("halt"), Eof>>,
   <<Dir(".pos"), Num("0"), Instr("nop"), Dir(".pos"), Num("6"), Instr("halt"), Eof>>,
   <<Label("d"), Colon, Dir(".quad"), Num("3"), Dir(".pos"), Num("6"),
     Label("main"), Colon, Instr("nop"), Instr("halt"), Eof>>}

\* Programs that end near the top of memory.
LoaderPrograms ==
  {<<Instr("nop"), Instr("halt"), Eof>>,
   <<Dir(".pos"), Num("11"), Dir(".quad"), Num("258"), Instr("halt"), Eof>>,
   <<Dir(".pos"), Num("11"), Instr("halt"), Eof>>,
   <<Dir(".pos"), Num("9"), Instr("nop"), Instr("irmovq"), Num("3"), Comma,
     Reg("%rbx"), Instr("halt"), Eof>>,
   <<Dir(".quad"), Num("3"), Dir(".pos"), Num("11"), Dir(".quad"), Num("6"),
     Instr("halt"), Eof>>,
   <<Dir(".pos"), Num("3"), Label("d"), Colon, Dir(".quad"), Num("258"),
     Dir(".pos"), Num("0"), Instr("irmovq"), Label("d"), Comma, Reg("%rcx"), Eof>>}

Programs ==
  UNION {SingleInstance(m) : m \in Mnemonics} \cup LongPrograms \cup LabelPrograms
    \cup MalformedPrograms \cup EntryPrograms \cup LoaderPrograms

\* The orders in which Go may range over the keys of a map.
RangeOrders(f) ==
  {o \in [1 .. Cardinality(DOMAIN f) -> DOMAIN f] :
     \A i, j \in DOMAIN o : i # j => o[i] # o[j]}

\* loadData: every entry of the data table is written as a quadword, in the
\* order the map is ranged over; a failed write only sets the status.
RECURSIVE loadData(_, _, _, _)
loadData(m, dataTable, order, i) ==
  IF i > Len(order) THEN m
  ELSE loadData(writeLongToMem(m, order[i], dataTable[order[i]]), dataTable, order, i + 1)

\* loadInstructions: the byte vectors are written one behind the other from
\* address on; the first failed write ends the loop with its error.
RECURSIVE loadInstructions(_, _, _, _)
loadInstructions(m, buffer, i, address) ==
  IF i > Len(buffer) THEN [m |-> m, err |-> ""]
  ELSE IF writeBytesToMemFails(address, buffer[i])
  THEN [m |-> m, err |-> "cannot write"]
  ELSE loadInstructions(writeBytesToMem(m, address, buffer[i]), buffer, i + 1,
                        address + Len(buffer[i]))

\* LoadCPU has no result: the error of loadInstructions is dropped.
LoadCPU(p, m, order) ==
  LET m1 == setEntryPoint(m, p.start)
      m2 == loadData(m1, p.dataTable, order, 1)
  IN loadInstructions(m2, p.instructionBuffer, 1, m2.state.pc)

\* The writes LoadCPU attempts, in order: address, bytes and whether the
\* write was refused.
RECURSIVE InstructionWrites(_, _, _)
InstructionWrites(buffer, i, address) ==
  IF i > Len(buffer) THEN <<>>
  ELSE IF writeBytesToMemFails(address, buffer[i])
  THEN <<[addr |-> address, bytes |-> buffer[i], failed |-> TRUE]>>
  ELSE <<[addr |-> address, bytes |-> buffer[i], failed |-> FALSE]>>
         \o InstructionWrites(buffer, i + 1, address + Len(buffer[i]))

LoadWrites(p, order) ==
  [i \in 1 .. Len(order) |->
     [addr |-> order[i], bytes |-> intToBytes(p.dataTable[order[i]]),
      failed |-> (order[i] < 0 \/ order[i] + WordBytes > maxMem)]]
    \o InstructionWrites(p.instructionBuffer, 1, p.start)

ParseIO(tok, at, before, err1, out) ==
  [tok |-> tok, at |-> at, before |-> before, err1 |-> err1, ret |-> out]

InitParse ==
  /\ mem = ZeroCPU.mem
  /\ reg = ZeroCPU.reg
  /\ state = ZeroCPU.state
  /\ panicked = FALSE
  /\ last = "NewParser"
  /\ prev = [mem |-> ZeroCPU.mem, reg |-> ZeroCPU.reg, state |-> ZeroCPU.state]
  /\ stage = "firstPass"
  /\ setups = 0
  /\ ticks = 0
  /\ \E tokens \in Programs :
       /\ parser = NewParser(tokens)
       /\ scanner = NewScanner(<<>>)
       /\ io = ParseIO(Eof, 0, NewParser(tokens), "", "")

FirstPassStep ==
  /\ ~panicked
  /\ stage = "firstPass"
  /\ ~isAtEnd(parser)
  /\ LET r == firstPassStep(parser)
     IN /\ parser' = r.p
        /\ panicked' = r.p.panic
        /\ io' = ParseIO(peek(parser), parser.curr + 1, parser, r.err, "")
        /\ stage' = IF r.err # "" THEN "secondPass" ELSE "firstPass"
  /\ last' = "firstPass"
  /\ UNCHANGED <<scanner, mem, reg, state, prev, setups, ticks>>

\* The loop of firstPass has ended: curr is reset and secondPass starts.
FirstPassEnd ==
  /\ ~panicked
  /\ stage = "firstPass"
  /\ isAtEnd(parser)
  /\ parser' = [parser EXCEPT !.curr = 0]
  /\ io' = ParseIO(Eof, 0, parser, "", "")
  /\ stage' = "secondPass"
  /\ last' = "firstPassEnd"
  /\ UNCHANGED <<scanner, mem, reg, state, panicked, prev, setups, ticks>>

SecondPassStep ==
  /\ ~panicked
  /\ stage = "secondPass"
  /\ ~isAtEnd(parser)
  /\ LET r == secondPassStep(parser)
     IN /\ parser' = r.p
        /\ panicked' = r.p.panic
        /\ io' = ParseIO(peek(parser), parser.curr + 1, parser, io.err1, "")
  /\ last' = "secondPass"
  /\ UNCHANGED <<scanner, mem, reg, state, prev, stage, setups, ticks>>

\* The loop of secondPass has ended: secondPass returns nil and Parse
\* returns err1.
SecondPassEnd ==
  /\ ~panicked
  /\ stage = "secondPass"
  /\ isAtEnd(parser)
  /\ io' = ParseIO(Eof, 0, parser, io.err1, io.err1)
  /\ stage' = "parsed"
  /\ last' = "Parse"
  /\ UNCHANGED <<scanner, mem, reg, state, panicked, prev, setups, ticks, parser>>

\* LoadCPU on the parser Parse has returned from, with a fresh CPU.
DoLoadCPU ==
  /\ ~panicked
  /\ stage = "parsed"
  /\ \E order \in RangeOrders(parser.dataTable) :
       LET r == LoadCPU(parser, Machine, order)
       IN /\ mem' = r.m.mem
          /\ reg' = r.m.reg
          /\ state' = r.m.state
          /\ panicked' = r.m.panic
          /\ io' = [tok |-> Eof, at |-> 0, before |-> parser, err1 |-> io.ret,
                    ret |-> "", writes |-> LoadWrites(parser, order),
                    loadErr |-> r.err]
  /\ prev' = Snapshot
  /\ stage' = "loaded"
  /\ last' = "LoadCPU"
  /\ UNCHANGED <<scanner, setups, ticks, parser>>

NextParse ==
  FirstPassStep \/ FirstPassEnd \/ SecondPassStep \/ SecondPassEnd \/ DoLoadCPU

SpecParse == InitParse /\ [][NextParse]_vars

(***************************************************************************)
(* The scanner.  A scanner is the record [src, cur, start, line, col,      *)
(* tokens, panic]; characters are strings of length one.                   *)
(***************************************************************************)
\* unicode.IsNumber, IsSpace, IsLetter and IsSymbol on the characters of
\* the model.
Digits == {"0", "1", "2", "3", "4", "5", "6", "7", "8", "9"}

Spaces == {" ", "\t", "\n"}

Letters ==
  {"a", "b", "c", "d", "e", "f", "g", "h", "i", "j", "k", "l", "m", "n", "o",
   "p", "q", "r", "s", "t", "u", "v", "w", "x", "y", "z", "A", "B", "C", "D",
   "E", "F"}

Symbols == {"$", "+", "<", "=", ">", "^", "|", "~"}

IsNumber(r) == r \in Digits

IsSpace(r) == r \in Spaces

IsLetter(r) == r \in Letters

IsSymbol(r) == r \in Symbols

NewToken(tokType, lex, line, col) ==
  [tokenType |-> tokType, lex |-> lex, line |-> line, col |-> col]

lexemeTable ==
  [lex \in Mnemonics \cup {".pos", ".quad"} |->
     IF lex \in Mnemonics THEN "instruction" ELSE "dir"]

\* src[from:to], Go's slice of the source between two 0-based offsets.
RECURSIVE SrcSlice(_, _, _)
SrcSlice(src, from, to) ==
  IF from >= to THEN "" ELSE src[from + 1] \o SrcSlice(src, from + 1, to)

scannerIsAtEnd(s) == s.cur >= Len(s.src)

\* advance: the character at cur; indexing behind the source panics.
scannerAdvance(s) ==
  IF s.cur >= Len(s.src) \/ s.panic
  THEN [s |-> [s EXCEPT !.panic = TRUE], r |-> ""]
  ELSE [s |-> [s EXCEPT !.cur = @ + 1, !.col = @ + 1], r |-> s.src[s.cur + 1]]

addTokenLiteral(s, tokenType, literal) ==
  [s EXCEPT !.tokens = Append(@, NewToken(tokenType, literal, s.line, s.col))]

addToken(s, tokenType) ==
  [s EXCEPT !.tokens =
     Append(@, NewToken(tokenType, SrcSlice(s.src, s.start, s.cur), s.line, s.col))]

\* The loop of matchNumber: advance while the character is a digit.
RECURSIVE matchNumberLoop(_, _)
matchNumberLoop(s, r) ==
  IF ~scannerIsAtEnd(s) /\ IsNumber(r)
  THEN LET a == scannerAdvance(s) IN matchNumberLoop(a.s, a.r)
  ELSE [s |-> s, r |-> r]

matchNumber(s, r) ==
  LET w == matchNumberLoop(s, r)
  IN IF w.r # "," /\ w.r # "(" /\ ~IsSpace(w.r) /\ ~IsNumber(w.r)
     THEN [s |-> w.s, ok |-> FALSE]
     ELSE LET b == IF ~scannerIsAtEnd(w.s) \/ w.r = "("
                   THEN [w.s EXCEPT !.cur = @ - 1] ELSE w.s
          IN [s |-> addToken(b, "num"), ok |-> TRUE]

isAtTerminationSeq(r) == r = ":" \/ r = "," \/ IsSpace(r)

RECURSIVE matchIdentifierLoop(_, _)
matchIdentifierLoop(s, r) ==
  IF ~scannerIsAtEnd(s) /\ ~isAtTerminationSeq(r)
  THEN LET a == scannerAdvance(s) IN matchIdentifierLoop(a.s, a.r)
  ELSE [s |-> s, r |-> r]

matchIdentifier(s, r) ==
  LET w == matchIdentifierLoop(s, r)
      b == IF ~scannerIsAtEnd(w.s) \/ w.r = ":" \/ w.r = ","
           THEN [w.s EXCEPT !.cur = @ - 1] ELSE w.s
      lex == SrcSlice(b.src, b.start, b.cur)
  IN IF lex \in DOMAIN lexemeTable THEN addToken(b, lexemeTable[lex])
     ELSE addToken(b, "label")

matchReg(s) ==
  LET a == scannerAdvance(s)
  IN IF a.s.panic THEN [s |-> a.s, ok |-> FALSE]
     ELSE IF a.r = "8" THEN [s |-> addTokenLiteral(a.s, "reg", "%r8"), ok |-> TRUE]
     ELSE IF a.r = "9" THEN [s |-> addTokenLiteral(a.s, "reg", "%r9"), ok |-> TRUE]
     ELSE IF a.r = "1"
     THEN LET c == scannerAdvance(a.s)
          IN IF c.s.panic THEN [s |-> c.s, ok |-> FALSE]
             ELSE IF c.r \in {"0", "1", "2", "3", "4", "5"}
             THEN [s |-> addTokenLiteral(c.s, "reg", "%r1" \o c.r), ok |-> TRUE]
             ELSE [s |-> c.s, ok |-> FALSE]
     ELSE [s |-> a.s, ok |-> FALSE]

\* An error value is the sequence of what it carries; <<>> is nil.
InvalidToken == <<"invalid token">>

\* next: one pass through the switch of the scanner.
scannerNext(s) ==
  LET a == scannerAdvance([s EXCEPT !.start = s.cur])
      r == a.r
  IN IF a.s.panic THEN [s |-> a.s, err |-> <<>>]
     ELSE IF r = "\n" THEN [s |-> [a.s EXCEPT !.line = @ + 1, !.col = 1], err |-> <<>>]
     ELSE IF r = "(" THEN [s |-> addTokenLiteral(a.s, "lparen", "("), err |-> <<>>]
     ELSE IF r = ")" THEN [s |-> addTokenLiteral(a.s, "rparen", ")"), err |-> <<>>]
     ELSE IF r = ":" THEN [s |-> addTokenLiteral(a.s, "colon", ":"), err |-> <<>>]
     ELSE IF r = "," THEN [s |-> addTokenLiteral(a.s, "comma", ","), err |-> <<>>]
     ELSE IF r = "." THEN [s |-> matchIdentifier(a.s, r), err |-> <<>>]
     ELSE IF r = "0"
     THEN LET c == scannerAdvance(a.s)
          IN IF c.s.panic THEN [s |-> c.s, err |-> <<>>]
             ELSE IF c.r = "x"
             THEN LET d == scannerAdvance(c.s)
                  IN IF d.s.panic THEN [s |-> d.s, err |-> <<>>]
                     ELSE [s |-> matchNumber(d.s, d.r).s, err |-> <<>>]
             ELSE IF c.r = "("
             THEN [s |-> [addTokenLiteral(c.s, "num", "0") EXCEPT !.cur = @ - 1],
                   err |-> <<>>]
             ELSE [s |-> matchIdentifier(c.s, c.r), err |-> <<>>]
     ELSE IF r = "%"
     THEN LET c == scannerAdvance(a.s)
          IN IF c.s.panic THEN [s |-> c.s, err |-> <<>>]
             ELSE IF c.r = "r"
             THEN LET m == matchReg(c.s)
                  IN IF m.s.panic \/ m.ok THEN [s |-> m.s, err |-> <<>>]
                     ELSE [s |-> m.s, err |-> InvalidToken]
             ELSE [s |-> matchIdentifier(c.s, c.r), err |-> <<>>]
     ELSE IF IsNumber(r) THEN [s |-> matchNumber(a.s, r).s, err |-> <<>>]
     ELSE IF IsLetter(r) \/ IsSymbol(r) THEN [s |-> matchIdentifier(a.s, r), err |-> <<>>]
     ELSE [s |-> a.s, err |-> <<>>]

(***************************************************************************)
(* Scanning a source text: SpecScan                                        *)
(***************************************************************************)
\* The 16 register names of registerTable.
CanonicalRegs ==
  {<<"%", "r", "a", "x">>, <<"%", "r", "c", "x">>, <<"%", "r", "d", "x">>,
   <<"%", "r", "b", "x">>, <<"%", "r", "s", "p">>, <<"%", "r", "b", "p">>,
   <<"%", "r", "s", "i">>, <<"%", "r", "d", "i">>, <<"%", "r", "8">>,
   <<"%", "r", "9">>, <<"%", "r", "1", "0">>, <<"%", "r", "1", "1">>,
   <<"%", "r", "1", "2">>, <<"%", "r", "1", "3">>, <<"%", "r", "1", "4">>,
   <<"%", "r", "1", "5">>}

\* Integer literals: decimal, and hexadecimal with and without letters.
Literals ==
  {<<"3">>, <<"1", "2">>, <<"2", "5", "8">>, <<"0">>, <<"0", "7">>,
   <<"0", "x", "6">>, <<"0", "x", "1", "0">>, <<"0", "x", "f", "f">>,
   <<"0", "x", "1", "F">>, <<"0", "x", "a">>}

\* What follows a register name or a literal in the source.
Suffixes ==
  {<<>>, <<"\n">>, <<",">>, <<" ", "\n">>, <<"(", "%", "r", "8", ")">>,
   <<",", "%", "r", "9", "\n">>}

\* Characters that start no token and are not white space.
InvalidChars == {"#", "-", ";", "!"}

InvalidSources ==
  {<<c>> : c \in InvalidChars}
    \cup {<<"n", "o", "p", "\n", c, "\n", "h", "a", "l", "t">> : c \in InvalidChars}
    \cup {<<c, "3", "\n">> : c \in InvalidChars}

\* Lines of assembly, and texts that end inside a token.
TextSources ==
  {<<"i", "r", "m", "o", "v", "q", " ", "3", ",", " ", "%", "r", "8", "\n",
     "h", "a", "l", "t", "\n">>,
   <<".", "p", "o", "s", " ", "0", "x", "6", "\n", "t", ":", " ", "n", "o", "p">>,
   <<"m", "r", "m", "o", "v", "q", " ", "0", "(", "%", "r", "1", "2", ")",
     ",", "%", "r", "9">>,
   <<"%", "r">>, <<"%", "r", "1">>, <<"%">>, <<"0", "x">>, <<"%", "e", "a", "x", " ">>,
   <<"%", "r", "1", "6">>, <<"\t", "\n", " ">>}

Sources ==
  {x \o y : x \in CanonicalRegs \cup Literals, y \in Suffixes}
    \cup InvalidSources \cup TextSources

\* What a step of Scan did: the offset it started at, the scanner before
\* it, and what Scan returned (tokens and error) once it has returned.
ScanIO(at, before, tokens, err) ==
  [at |-> at, before |-> before, tokens |-> tokens, err |-> err]

InitScan ==
  /\ mem = ZeroCPU.mem
  /\ reg = ZeroCPU.reg
  /\ state = ZeroCPU.state
  /\ panicked = FALSE
  /\ last = "NewScanner"
  /\ prev = [mem |-> ZeroCPU.mem, reg |-> ZeroCPU.reg, state |-> ZeroCPU.state]
  /\ stage = "scanning"
  /\ setups = 0
  /\ ticks = 0
  /\ parser = NewParser(<<>>)
  /\ \E src \in Sources :
       /\ scanner = NewScanner(src)
       /\ io = ScanIO(0, NewScanner(src), <<>>, <<>>)

\* One iteration of the loop of Scan: next, and the return on an error.
ScanNext ==
  /\ ~panicked
  /\ stage = "scanning"
  /\ ~scannerIsAtEnd(scanner)
  /\ LET r == scannerNext(scanner)
     IN /\ scanner' = r.s
        /\ panicked' = r.s.panic
        /\ io' = ScanIO(scanner.cur, scanner, <<>>, r.err)
        /\ stage' = IF r.err # <<>> THEN "scanned" ELSE "scanning"
  /\ last' = "next"
  /\ UNCHANGED <<mem, reg, state, prev, setups, ticks, parser>>

\* The loop of Scan has ended: the eof token is added and the tokens are
\* returned.
ScanEnd ==
  /\ ~panicked
  /\ stage = "scanning"
  /\ scannerIsAtEnd(scanner)
  /\ scanner' = addTokenLiteral(scanner, "eof", "")
  /\ io' = ScanIO(scanner.cur, scanner, scanner'.tokens, <<>>)
  /\ stage' = "scanned"
  /\ last' = "Scan"
  /\ UNCHANGED <<mem, reg, state, panicked, prev, setups, ticks, parser>>

NextScan == ScanNext \/ ScanEnd

SpecScan == InitScan /\ [][NextScan]_vars

(***************************************************************************)
(* What the instruction set tabulates, used to state the properties        *)
(***************************************************************************)
\* Size column of the instruction table, by opcode (9 and 10 scaled).
instSize(opcode) ==
  CASE opcode \in {halt, nop, ret} -> 1
    [] opcode \in {rrmovq, opq, pushq, popq} -> 2
    [] opcode \in {jxx, call} -> 1 + WordBytes
    [] opcode \in {irmovq, rmmovq, mrmovq} -> 2 + WordBytes
    [] OTHER -> 0

\* The byte at pc before the last tick, and its two nibbles.
PrevPcInMem == prev.state.pc \in Addr
PrevByte == prev.mem[prev.state.pc]
PrevOpcode == PrevByte \div 16
PrevFcode == PrevByte % 16

\* The whole instruction lies inside memory under every reading of the
\* bound (the longest instruction ends before the last byte).
PrevInstInside == PrevPcInMem /\ prev.state.pc + 2 + WordBytes < maxMem

\* The W-byte immediate stored after byte `off` of the instruction at pc.
PrevImmediate(off) ==
  bytesToInt([i \in 1 .. WordBytes |-> prev.mem[prev.state.pc + off + i - 1]])

BadInstruction(opcode, fcode) ==
  \/ opcode > popq
  \/ opcode \in {opq, jxx} /\ fcode > 6
  \/ opcode \notin {opq, jxx} /\ fcode # 0

\* Jump predicate by fcode: jmp, jle, jl, je, jne, jge, jg.
JumpTaken(fcode, cc) ==
  CASE fcode = 0 -> TRUE
    [] fcode = 1 -> cc.z \/ cc.s
    [] fcode = 2 -> cc.s
    [] fcode = 3 -> cc.z
    [] fcode = 4 -> ~cc.z
    [] fcode = 5 -> ~cc.s
    [] fcode = 6 -> ~cc.z /\ ~cc.s
    [] OTHER -> FALSE

\* The exact result of b op a fits the word.
MulFits(a, b) ==
  \/ a = 0
  \/ b = 0
  \/ (a < 0) = (b < 0) /\ Abs(a) <= MaxInt \div Abs(b)
  \/ (a < 0) # (b < 0) /\ Abs(a) <= WordHalf \div Abs(b)

ExactFits(fcode, a, b) ==
  CASE fcode = add -> b + a >= MinInt /\ b + a <= MaxInt
    [] fcode = sub -> b - a >= MinInt /\ b - a <= MaxInt
    [] fcode = mul -> MulFits(a, b)
    [] OTHER -> TRUE

OutOfRange(addr) == addr < 0 \/ addr + WordBytes > maxMem

TickDone == stage = "done"

(***************************************************************************)
(* Properties                                                              *)
(***************************************************************************)

\* C1: from every CPU state, Tick completes without a runtime crash and
\* returns one of the five status codes.
C1_TickReturnsStatus ==
  last = "Tick" => (~panicked /\ state.status \in {aok, hlt, adr, ins, dz})

\* C2: for a byte at pc whose high nibble is one of the 12 opcodes, fetch
\* takes opcode and fcode from the two nibbles, reads the tabulated number
\* of bytes and sets valP = pc + that size.
C2_FetchByOpcodeNibble ==
  (last = "Tick" /\ PrevInstInside /\ PrevOpcode <= popq) =>
     /\ ~panicked
     /\ fetchSize(PrevByte) = instSize(PrevOpcode)
     /\ state.instreg.opcode = PrevOpcode
     /\ state.instreg.fcode = PrevFcode
     /\ state.valP = prev.state.pc + instSize(PrevOpcode)

\* C3: write-back writes exactly the tabulated registers for each opcode,
\* and after a tick of irmovq v, rB the register rB holds v.
C3_WritebackTable ==
  (TickDone /\ ~BadInstruction(state.instreg.opcode, state.instreg.fcode)) =>
     LET ir == state.instreg
     IN CASE ir.opcode = rrmovq -> reg = [prev.reg EXCEPT ![ir.rB] = state.valA]
          [] ir.opcode = irmovq ->
               /\ reg = [prev.reg EXCEPT ![ir.rB] = state.valE]
               /\ reg[ir.rB] = PrevImmediate(2)
          [] ir.opcode = mrmovq -> reg = [prev.reg EXCEPT ![ir.rA] = state.valM]
          [] ir.opcode = opq -> reg = [prev.reg EXCEPT ![ir.rB] = state.valE]
          [] ir.opcode \in {call, pushq, ret} ->
               reg = [prev.reg EXCEPT ![stackPtrReg] = state.valE]
          [] ir.opcode = popq ->
               reg = [[prev.reg EXCEPT ![ir.rA] = state.valM]
                        EXCEPT ![stackPtrReg] = state.valE]
          [] OTHER -> reg = prev.reg

\* C4: an opq that divides or takes the remainder by valA = 0 sets status
\* DZ, leaves reg[rB] at valB and does not crash, for mod as for div.
C4_DivModByZero ==
  (state.instreg.opcode = opq /\ state.instreg.fcode \in {div, mod}
     /\ prev.reg[state.instreg.rA] = 0) =>
     /\ ~panicked
     /\ TickDone => (state.status = dz
                       /\ reg[state.instreg.rB] = prev.reg[state.instreg.rB])

\* The address of the memory access of the instruction in the pipeline.
AccessAddr ==
  CASE state.instreg.opcode \in {rmmovq, mrmovq, call, pushq} -> state.valE
    [] state.instreg.opcode \in {ret, popq} -> state.valB
    [] OTHER -> 0

\* C5: a tick of a memory instruction whose window is not inside memory
\* ends with status ADR and changes neither memory nor any register.
C5_AdrNoSideEffect ==
  (state.instreg.opcode \in {rmmovq, mrmovq, call, ret, pushq, popq}
     /\ stage \in {"writeback", "updatePC", "done"} /\ OutOfRange(AccessAddr)) =>
     /\ ~panicked
     /\ TickDone => (state.status = adr /\ mem = prev.mem /\ reg = prev.reg)

\* C6: a tick on an opcode nibble outside the 12 opcodes, or on an fcode
\* outside the range of its opcode family, ends with status INS.
C6_BadInstructionIsINS ==
  (last = "Tick" /\ PrevInstInside /\ BadInstruction(PrevOpcode, PrevFcode)) =>
     (~panicked /\ state.status = ins)

\* C7: after every opq tick, z is true exactly when valE = 0 and s exactly
\* when valE < 0, whatever the flags were before.
C7_ZeroAndSignFlags ==
  (TickDone /\ state.instreg.opcode = opq) =>
     /\ state.cc.z = (state.valE = 0)
     /\ state.cc.s = (state.valE < 0)

\* C8: after add, sub or mul, of is true exactly when the exact result of
\* valB op valA does not fit the word.
C8_OverflowFlag ==
  (TickDone /\ state.instreg.opcode = opq /\ state.instreg.fcode \in {add, sub, mul}) =>
     state.cc.of = ~ExactFits(state.instreg.fcode, state.valA, state.valB)

\* C9: a jxx jumps to valC exactly when the predicate of its fcode holds on
\* (z, s), with jge = 5 and jg = 6, and goes to valP otherwise.
C9_JumpPredicates ==
  (TickDone /\ state.instreg.opcode = jxx /\ state.instreg.fcode <= 6) =>
     state.pc = IF JumpTaken(state.instreg.fcode, prev.state.cc)
                THEN state.instreg.valC ELSE state.valP

\* C10: every tick assigns pc once, in the PC-update stage: valM for ret,
\* valC for call and for a jxx whose condition holds, valP = pc + size in
\* every other case.
C10_NextPc ==
  (last = "Tick" /\ PrevInstInside /\ ~BadInstruction(PrevOpcode, PrevFcode)) =>
     /\ ~panicked
     /\ state.valP = prev.state.pc + instSize(PrevOpcode)
     /\ state.pc = CASE PrevOpcode = ret -> state.valM
                     [] PrevOpcode = call -> state.instreg.valC
                     [] PrevOpcode = jxx /\ JumpTaken(PrevFcode, prev.state.cc) ->
                          state.instreg.valC
                     [] OTHER -> state.valP

\* The last call of the history and the one before it.
LastCall == io[Len(io)]
CallBefore == io[Len(io) - 1]

\* Size of the memory the specification describes: addresses 0 .. maxMem
\* (65,536 = 0xffff + 1 bytes).
MemBytes == maxMem + 1

\* C11: memory is 65,536 bytes and every access whose byte window lies in
\* [0, 65,536) is accepted: no ADR status, no error, no crash.
C11_WholeMemoryUsable ==
  (Len(io) > 0 /\ LastCall.addr >= 0 /\ LastCall.addr + LastCall.size <= MemBytes
     /\ LastCall.status # adr) =>
     (~panicked /\ ~LastCall.err /\ state.status # adr)

\* C12: for every address a with a + 8 > maxMem or a < 0, the 64-bit write
\* and the 64-bit read set status ADR, leave memory unmodified and return
\* normally, the read returning 0.
C12_BadAddressIsADR ==
  (Len(io) > 0 /\ LastCall.op \in {"writeLongToMem", "readMem"}
     /\ OutOfRange(LastCall.addr)) =>
     /\ ~panicked
     /\ state.status = adr
     /\ mem = prev.mem
     /\ LastCall.ret = 0

\* C13: for every address a in [0, maxMem - 8] and every word v, a write of
\* v at a followed by a read at a returns v, the bytes at a .. a + 7 are v
\* in little-endian order, and status is what it was before the write.
C13_WriteReadRoundTrip ==
  (Len(io) >= 2 /\ LastCall.op = "readMem" /\ CallBefore.op = "writeLongToMem"
     /\ LastCall.addr = CallBefore.addr
     /\ LastCall.addr \in 0 .. maxMem - WordBytes) =>
     /\ ~panicked
     /\ LastCall.ret = CallBefore.val
     /\ \A i \in 0 .. WordBytes - 1 :
          mem[LastCall.addr + i] = (CallBefore.val \div Pow(256, i)) % 256
     /\ state.status = CallBefore.status

\* A negative word written at the last word of memory and read back.
C13_Witness ==
  /\ Len(io) >= 2
  /\ LastCall.op = "readMem"
  /\ CallBefore.op = "writeLongToMem"
  /\ LastCall.addr = maxMem - WordBytes
  /\ CallBefore.addr = maxMem - WordBytes
  /\ CallBefore.val = MinInt
  /\ LastCall.ret = MinInt
  /\ state.status = adr

\* Opcodes whose encoding has a register byte, and those with an immediate.
HasRegByte(opcode) ==
  opcode \in {rrmovq, irmovq, rmmovq, mrmovq, opq, pushq, popq}

HasImmediate(opcode) == opcode \in {irmovq, rmmovq, mrmovq, jxx, call}

\* C14: createInstReg(EncodeInst(opcode, fcode, rA, rB, c)) has the same
\* opcode and fcode, the same rA and rB when there is a register byte, and
\* valC = c when there is an immediate, for negative and full-width c too.
C14_DecodeRecoversEncode ==
  (Len(io) >= 2 /\ LastCall.op = "createInstReg" /\ CallBefore.op = "EncodeInst") =>
     /\ ~panicked
     /\ LastCall.inst.opcode = CallBefore.inst.opcode
     /\ LastCall.inst.fcode = CallBefore.inst.fcode
     /\ HasRegByte(CallBefore.inst.opcode) =>
          /\ LastCall.inst.rA = CallBefore.inst.rA
          /\ LastCall.inst.rB = CallBefore.inst.rB
     /\ HasImmediate(CallBefore.inst.opcode) =>
          LastCall.inst.valC = CallBefore.inst.valC

\* C15: bytesToInt(intToBytes(v)) = v for every word v, and
\* intToBytes(bytesToInt(b)) = b for every sequence b of 8 bytes.
C15_IntBytesInverse ==
  Len(io) >= 2 =>
     /\ (LastCall.op = "bytesToInt" /\ CallBefore.op = "intToBytes") =>
          LastCall.val = CallBefore.val
     /\ (LastCall.op = "intToBytes" /\ CallBefore.op = "bytesToInt"
           /\ Len(CallBefore.buf) = WordBytes) =>
          LastCall.buf = CallBefore.buf

\* The most negative word converted to bytes and back.
C15_Witness ==
  /\ Len(io) >= 2
  /\ CallBefore.op = "intToBytes"
  /\ CallBefore.val = MinInt
  /\ LastCall.op = "bytesToInt"
  /\ LastCall.buf = CallBefore.buf
  /\ LastCall.buf[WordBytes] = 128
  /\ LastCall.val = MinInt

\* The word stored at addr in a memory.
WordAt(memory0, addr) ==
  bytesToInt([i \in 1 .. WordBytes |-> memory0[addr + i - 1]])

\* C16: a tick on a halt instruction (byte 0x00 at pc) sets status HLT and
\* pc to pc + 1, and changes no register, no memory byte and no condition
\* code.
C16_HaltTick ==
  (last = "Tick" /\ PrevPcInMem /\ PrevByte = 0) =>
     /\ ~panicked
     /\ state.status = hlt
     /\ state.pc = prev.state.pc + 1
     /\ reg = prev.reg
     /\ mem = prev.mem
     /\ state.cc = prev.state.cc

\* The stack window [addr, addr + 8) lies inside memory.
StackInRange(addr) == addr >= 0 /\ addr + WordBytes <= maxMem

\* C17: right after a call tick with the stack window in range, %rsp is 8
\* lower, M8[%rsp] is the address of the instruction after the call and pc
\* is the call destination; right after a ret tick, %rsp is 8 higher and pc
\* is the quadword that was at the old %rsp, so that a call followed by a
\* ret returns to the caller with %rsp restored.
C17_CallThenRet ==
  /\ (last = "Tick" /\ PrevInstInside /\ PrevByte = 16 * call
        /\ StackInRange(prev.reg[stackPtrReg] - WordBytes)) =>
       /\ ~panicked
       /\ reg[stackPtrReg] = prev.reg[stackPtrReg] - WordBytes
       /\ WordAt(mem, reg[stackPtrReg]) = prev.state.pc + 1 + WordBytes
       /\ state.pc = PrevImmediate(1)
  /\ (last = "Tick" /\ PrevInstInside /\ PrevByte = 16 * ret
        /\ StackInRange(prev.reg[stackPtrReg])) =>
       /\ ~panicked
       /\ reg[stackPtrReg] = prev.reg[stackPtrReg] + WordBytes
       /\ state.pc = WordAt(prev.mem, prev.reg[stackPtrReg])

\* C18: for every mnemonic M of the instruction table, assembling a program
\* that is one well-formed instance of M yields an instruction buffer with
\* exactly one byte vector, of the tabulated size of M.
C18_OneVectorOfTabulatedSize ==
  \A m \in Mnemonics :
    parser.tokens \in SingleInstance(m) =>
       /\ ~panicked
       /\ stage = "parsed" =>
            /\ Len(parser.instructionBuffer) = 1
            /\ Len(parser.instructionBuffer[1]) = instructionTable[m][3]

\* The register indices of the operands that follow the instruction token
\* at index i - 1, in source order.
RECURSIVE OperandRegs(_, _)
OperandRegs(tokens, i) ==
  IF i > Len(tokens) \/ tokens[i].tokenType \in {"instruction", "dir", "eof"} THEN <<>>
  ELSE (IF tokens[i].tokenType = "reg" /\ tokens[i].lex \in RegNames
        THEN <<registerTable[tokens[i].lex]>> ELSE <<>>)
         \o OperandRegs(tokens, i + 1)

\* The register byte rA.rB the source syntax of each family asks for.
RegByte(opcode, regs) ==
  CASE opcode = irmovq -> 16 * 15 + regs[1]
    [] opcode = mrmovq -> 16 * regs[2] + regs[1]
    [] opcode \in {pushq, popq} -> 16 * regs[1] + 15
    [] OTHER -> 16 * regs[1] + regs[2]

\* C19: every byte vector the assembler emits has byte 0 = (opcode << 4) |
\* fcode of its mnemonic and, for an instruction with a register byte,
\* byte 1 = (rA << 4) | rB, with rA = 0xF for irmovq; for opq as for the
\* others.
C19_EmittedBytes ==
  (last = "secondPass" /\ io.tok.tokenType = "instruction"
     /\ Len(parser.instructionBuffer) > Len(io.before.instructionBuffer)) =>
     LET bytes == parser.instructionBuffer[Len(parser.instructionBuffer)]
         info  == instructionTable[io.tok.lex]
     IN /\ bytes[1] = 16 * info[1] + info[2]
        /\ HasRegByte(info[1]) =>
             bytes[2] = RegByte(info[1], OperandRegs(parser.tokens, io.at + 1))

\* The fcode the ALU uses for the operation an opq mnemonic names.
AluFcode(m) ==
  CASE m = "addq" -> add
    [] m = "subq" -> sub
    [] m = "andq" -> and
    [] m = "xorq" -> xor
    [] m = "mulq" -> mul
    [] m = "divq" -> div
    [] m = "modq" -> mod

\* C20: the instruction table agrees with the CPU's encoding: whenever the
\* second pass assembles a mnemonic, no other mnemonic of the table has its
\* (opcode, fcode) pair, and an opq mnemonic carries the fcode the ALU uses
\* for that operation.
C20_TableAgreesWithCpu ==
  (last = "secondPass" /\ io.tok.tokenType = "instruction") =>
     LET m == io.tok.lex
     IN /\ \A m2 \in Mnemonics \ {m} :
             <<instructionTable[m2][1], instructionTable[m2][2]>>
               # <<instructionTable[m][1], instructionTable[m][2]>>
        /\ m \in OpqMnemonics => instructionTable[m][2] = AluFcode(m)

\* The labels a program defines (label followed by a colon).
DefinedLabels(tokens) ==
  {tokens[i].lex : i \in {j \in 1 .. Len(tokens) - 1 :
                            tokens[j].tokenType = "label" /\ tokens[j + 1].tokenType = "colon"}}

\* The instruction token at index i takes a label operand.
TakesLabel(tokens, i) ==
  /\ tokens[i].tokenType = "instruction"
  /\ instructionTable[tokens[i].lex][1] \in {irmovq, jxx, call}
  /\ tokens[i + 1].tokenType = "label"

\* The immediate of an emitted byte vector (after the register byte, if the
\* opcode has one).
ImmediateOf(opcode, bytes) ==
  LET off == IF HasRegByte(opcode) THEN 2 ELSE 1
  IN bytesToInt(SubSeq(bytes, off + 1, off + WordBytes))

\* C21: for every instruction with a label operand (irmovq, jxx, call) the
\* encoded immediate is the address the first pass recorded for the label,
\* also when the label is defined after the instruction.
C21_LabelImmediate ==
  (last = "secondPass" /\ TakesLabel(parser.tokens, io.at)
     /\ parser.tokens[io.at + 1].lex \in DefinedLabels(parser.tokens)
     /\ io.err1 = "") =>
     /\ ~panicked
     /\ Len(parser.instructionBuffer) = Len(io.before.instructionBuffer) + 1
     /\ ImmediateOf(instructionTable[io.tok.lex][1],
                    parser.instructionBuffer[Len(parser.instructionBuffer)])
          = parser.symbolTable[parser.tokens[io.at + 1].lex]

\* Some instruction of the program names a label the program never defines.
UsesUndefinedLabel(tokens) ==
  \E i \in 1 .. Len(tokens) - 1 :
    TakesLabel(tokens, i) /\ tokens[i + 1].lex \notin DefinedLabels(tokens)

\* C22: assembling an instruction whose label operand is defined nowhere
\* makes Parse return an error, and no byte vector is emitted for it.
C22_UndefinedLabelIsError ==
  UsesUndefinedLabel(parser.tokens) =>
     /\ ~panicked
     /\ stage = "parsed" => io.ret # ""
     /\ (last = "secondPass" /\ TakesLabel(parser.tokens, io.at)
           /\ parser.tokens[io.at + 1].lex \notin DefinedLabels(parser.tokens)) =>
          parser.instructionBuffer = io.before.instructionBuffer

\* C23: Parse returns an error whenever some instruction has operands of
\* the wrong shape, names an unknown register or is cut off by the end of
\* the input.
C23_MalformedIsError ==
  parser.tokens \in MalformedPrograms =>
     /\ ~panicked
     /\ stage = "parsed" => io.ret # ""

\* The entry point the source asks for: the location counter at the first
\* instruction behind a .pos directive, 0 without one.
RECURSIVE EntryFrom(_, _, _, _)
EntryFrom(tokens, i, lc, seenPos) ==
  IF i > Len(tokens) \/ tokens[i].tokenType = "eof" THEN 0
  ELSE IF tokens[i].tokenType = "dir" /\ tokens[i + 1].tokenType = "num"
  THEN IF tokens[i].lex = ".pos"
       THEN EntryFrom(tokens, i + 2, ParseInt(tokens[i + 1].lex), TRUE)
       ELSE EntryFrom(tokens, i + 2, lc + WordBytes, seenPos)
  ELSE IF tokens[i].tokenType = "instruction"
  THEN IF seenPos THEN lc
       ELSE EntryFrom(tokens, i + 1, lc + instructionTable[tokens[i].lex][3], seenPos)
  ELSE EntryFrom(tokens, i + 1, lc, seenPos)

\* C24: after Parse the entry point is the address of the first instruction
\* that follows a .pos directive, whatever labels or data stand between
\* them, and 0 when the program has no .pos.
C24_EntryPoint ==
  (stage = "parsed" /\ io.ret = "") =>
     parser.start = EntryFrom(parser.tokens, 1, 0, FALSE)

\* The addresses the source assigns to its instructions, in order: the
\* location counter at each instruction.
RECURSIVE InstrAddrs(_, _, _)
InstrAddrs(tokens, i, lc) ==
  IF i > Len(tokens) \/ tokens[i].tokenType = "eof" THEN <<>>
  ELSE IF tokens[i].tokenType = "dir" /\ tokens[i + 1].tokenType = "num"
  THEN IF tokens[i].lex = ".pos"
       THEN InstrAddrs(tokens, i + 2, ParseInt(tokens[i + 1].lex))
       ELSE InstrAddrs(tokens, i + 2, lc + WordBytes)
  ELSE IF tokens[i].tokenType = "instruction"
  THEN <<lc>> \o InstrAddrs(tokens, i + 1, lc + instructionTable[tokens[i].lex][3])
  ELSE InstrAddrs(tokens, i + 1, lc)

\* Memory holds bytes from address addr on.
MemHolds(addr, bytes) ==
  \A i \in 1 .. Len(bytes) : addr + i - 1 \in Addr /\ mem[addr + i - 1] = bytes[i]

\* The program was assembled without error and every byte vector fits in
\* memory at the address the source assigns to it.
LoadFits ==
  LET addrs == InstrAddrs(parser.tokens, 1, 0)
  IN /\ io.err1 = ""
     /\ Len(addrs) = Len(parser.instructionBuffer)
     /\ \A k \in 1 .. Len(addrs) :
          addrs[k] + Len(parser.instructionBuffer[k]) < maxMem

\* C25: the loader copies every byte vector to the address the assembler
\* assigned to it, so instructions separated by a .pos gap or by .quad data
\* land at their own addresses.
C25_LoadedAtOwnAddress ==
  (last = "LoadCPU" /\ LoadFits) =>
     LET addrs == InstrAddrs(parser.tokens, 1, 0)
     IN \A k \in 1 .. Len(addrs) : MemHolds(addrs[k], parser.instructionBuffer[k])

\* C26: when a data entry or a byte vector does not fit in memory the loader
\* stops at that first failing write and reports an "invalid address" load
\* error to its caller.
C26_LoadStopsAtFailure ==
  last = "LoadCPU" =>
     \A k \in 1 .. Len(io.writes) :
        io.writes[k].failed => (k = Len(io.writes) /\ io.ret = "invalid address")

\* The word x stands in src at 0-based offset at.
StandsAt(src, at, x) ==
  /\ at + Len(x) <= Len(src)
  /\ \A i \in 1 .. Len(x) : src[at + i] = x[i]

\* The word x stands at offset at and no letter or digit follows it.
WholeWordAt(src, at, x) ==
  /\ StandsAt(src, at, x)
  /\ at + Len(x) < Len(src) => src[at + Len(x) + 1] \notin Digits \cup Letters

\* The last call of next added exactly one token of this kind and lexeme.
AddedOneToken(tokenType, lex) ==
  /\ Len(scanner.tokens) = Len(io.before.tokens) + 1
  /\ scanner.tokens[Len(scanner.tokens)].tokenType = tokenType
  /\ scanner.tokens[Len(scanner.tokens)].lex = lex

\* C27: scanning any of the 16 canonical register names yields exactly one
\* token of kind register whose lexeme is that name, and no error.
C27_RegisterNames ==
  last = "next" =>
     \A x \in CanonicalRegs :
        WholeWordAt(io.before.src, io.at, x) =>
          /\ ~panicked
          /\ io.err = <<>>
          /\ AddedOneToken("reg", SrcSlice(x, 0, Len(x)))

\* C28: every integer literal, decimal or 0x followed by hexadecimal digits
\* (a-f and A-F included), is scanned as exactly one number token whose
\* lexeme is the whole literal.
C28_IntegerLiterals ==
  last = "next" =>
     \A x \in Literals :
        WholeWordAt(io.before.src, io.at, x) =>
          /\ ~panicked
          /\ io.err = <<>>
          /\ AddedOneToken("num", SrcSlice(x, 0, Len(x)))

\* C29: when the scanner meets a character that starts no token and is not
\* white space, Scan returns an "invalid token" error that names the line
\* and the column of that character.
C29_InvalidCharacter ==
  (last = "next" /\ io.before.src[io.at + 1] \in InvalidChars) =>
     /\ ~panicked
     /\ stage = "scanned"
     /\ io.err = <<"invalid token", io.before.line, io.before.col>>

\* Some byte of the instruction at pc before the last tick lies outside
\* memory: pc itself, or the end of the instruction its opcode announces.
PrevInstOutside ==
  IF PrevPcInMem THEN prev.state.pc + instSize(PrevOpcode) > maxMem ELSE TRUE

\* C30: if any byte of the instruction at pc lies outside memory, the tick
\* ends with status = ADR and has changed no register, no memory byte and
\* no condition code.
C30_FetchOutsideIsADR ==
  (last = "Tick" /\ PrevInstOutside) =>
     /\ ~panicked
     /\ state.status = adr
     /\ reg = prev.reg
     /\ mem = prev.mem
     /\ state.cc = prev.state.cc

\* C31: after an opq tick whose fcode is and, xor, div or mod, cc.of is
\* false, whatever it was before the tick.
C31_OverflowCleared ==
  (TickDone /\ state.instreg.opcode = opq /\ state.instreg.fcode \in {and, xor, div, mod}) =>
     ~state.cc.of

\* C32: the condition codes are changed only by a tick whose opcode is opq:
\* at every stage of the tick of any other instruction, also one that
\* faults or crashes, the three flags are what they were before the tick.
C32_OnlyOpqWritesCC ==
  state.instreg.opcode # opq => state.cc = prev.state.cc

\* A finished tick of a move that ran the ALU to the result 0 with all
\* flags clear before the tick.
C32_Witness ==
  /\ TickDone
  /\ ~panicked
  /\ state.instreg.opcode \in {rrmovq, irmovq}
  /\ state.valE = 0
  /\ prev.state.cc = NoCC

\* C33: in every state reached by ticks pc is an address of memory: no ret,
\* call or jxx and no fall-through at the top of memory leaves pc outside.
C33_PcInMemory ==
  (TickDone /\ ~panicked) => state.pc \in Addr

\* C34: status is absorbing away from OK: a tick that starts with status
\* HLT, ADR, INS or DZ never sets it back to OK, at none of its stages.
C34_StatusAbsorbing ==
  prev.state.status # aok => state.status # aok

\* A nop tick that started with status HLT has finished.
C34_Witness ==
  /\ TickDone
  /\ ~panicked
  /\ prev.state.status = hlt
  /\ state.instreg.opcode = nop

\* The location counter at the definition `name:` when the tokens are
\* walked once from location counter lc.
RECURSIVE LabelLc(_, _, _, _)
LabelLc(tokens, i, lc, name) ==
  IF i >= Len(tokens) THEN 0 - 1
  ELSE IF tokens[i].tokenType = "dir" /\ tokens[i + 1].tokenType = "num"
  THEN IF tokens[i].lex = ".pos"
       THEN LabelLc(tokens, i + 2, ParseInt(tokens[i + 1].lex), name)
       ELSE LabelLc(tokens, i + 2, lc + WordBytes, name)
  ELSE IF tokens[i].tokenType = "instruction"
  THEN LabelLc(tokens, i + 1, lc + instructionTable[tokens[i].lex][3], name)
  ELSE IF tokens[i].tokenType = "label" /\ tokens[i].lex = name
            /\ tokens[i + 1].tokenType = "colon"
  THEN lc
  ELSE LabelLc(tokens, i + 1, lc, name)

\* C35: the symbol table is written only by the first pass: no iteration
\* of the second pass changes it, and after Parse every label defined as
\* `label:` has the location counter the first pass had at that label.
C35_SymbolTableFirstPassOnly ==
  /\ last = "secondPass" => parser.symbolTable = io.before.symbolTable
  /\ (stage = "parsed" /\ io.ret = "") =>
        \A name \in DefinedLabels(parser.tokens) :
           /\ name \in DOMAIN parser.symbolTable
           /\ parser.symbolTable[name] = LabelLc(parser.tokens, 1, 0, name)

\* Parse has returned for a program with a label behind the address 0, and
\* the second pass has walked over that label.
C35_Witness ==
  /\ stage = "parsed"
  /\ io.ret = ""
  /\ \E name \in DefinedLabels(parser.tokens) : parser.symbolTable[name] > 0

\* The location counter at token i when the tokens are walked once from
\* location counter 0: .pos sets it, .quad adds a word, an instruction adds
\* its size.
RECURSIVE TokenLc(_, _, _, _)
TokenLc(tokens, i, j, lc) ==
  IF j >= i THEN lc
  ELSE IF tokens[j].tokenType = "dir" /\ tokens[j + 1].tokenType = "num"
  THEN IF j + 1 >= i THEN lc
       ELSE IF tokens[j].lex = ".pos"
       THEN TokenLc(tokens, i, j + 2, ParseInt(tokens[j + 1].lex))
       ELSE TokenLc(tokens, i, j + 2, lc + WordBytes)
  ELSE IF tokens[j].tokenType = "instruction"
  THEN TokenLc(tokens, i, j + 1, lc + instructionTable[tokens[j].lex][3])
  ELSE TokenLc(tokens, i, j + 1, lc)

\* C36: the two passes agree on addresses: at every directive and
\* instruction token the location counter of the second pass is the one the
\* first pass had at that token, and the second pass leaves the data table
\* as the first pass built it.
C36_PassesAgree ==
  (last = "secondPass" /\ io.err1 = "" /\ io.tok.tokenType \in {"dir", "instruction"}) =>
     /\ io.before.lc = TokenLc(parser.tokens, io.at, 1, 0)
     /\ ~panicked => parser.dataTable = io.before.dataTable

\* The token list ends with the eof token and holds no other eof token.
EofOnlyLast(tokens) ==
  /\ Len(tokens) >= 1
  /\ \A i \in 1 .. Len(tokens) : (tokens[i].tokenType = "eof") = (i = Len(tokens))

\* C37: for every source text Scan terminates without reading behind the
\* end of the source (every call of next moves forward and stays inside the
\* source) and returns either an error or a token list whose last token is
\* the only eof token.
C37_ScanTerminates ==
  /\ ~panicked
  /\ last = "next" => (scanner.cur > io.at /\ scanner.cur <= Len(scanner.src))
  /\ stage = "scanned" => (io.err # <<>> \/ EofOnlyLast(io.tokens))

====
